---- MODULE Spec2Model ----
(***************************************************************************)
(* Market-intelligence pipeline of the data-analyst portfolio:             *)
(*   data_collector.py  (fetch -> derived metrics -> CSV snapshots),       *)
(*   database_loader.py (CSV snapshots -> SQLite tables),                  *)
(*   tableau_data_prep.py / tableau_data_simple.py (report bucketing and   *)
(*   ranking rules).                                                       *)
(*                                                                         *)
(* Numbers are exact rationals [n, d] in lowest terms with d > 0;          *)
(* d = 0 encodes the float specials: NaN = 0/0, +inf = 1/0, -inf = -1/0.   *)
(* A standard deviation is kept by its square, [sq |-> variance].          *)
(* A data frame is a function from column name to the column's values.     *)
(***************************************************************************)
EXTENDS Integers, Sequences, FiniteSets, TLC

VARIABLES
    \* ---- data_collector.py: one run of main() ----
    pc,               \* position of the script that is running, or "idle"
    loop_i,           \* collect_all_data: index of the entity the loop is at
    all_price_data,   \* collect_all_data: list of per-entity price frames
    all_fundamentals, \* collect_all_data: list of per-entity profile dicts
    price_outcome,    \* upstream: what the price fetch of each entity did this run
    fund_outcome,     \* upstream: what the fundamentals fetch of each entity did
    fetch_calls,      \* number of fetch invocations per entity and kind this run
    runs,             \* number of collector runs started (the run's timestamp)
    faults,           \* failures the environment has injected so far
    save_ret,         \* what save_data returned to main
    summary,          \* numbers printed by generate_summary_report
    \* ---- ../data/ directory and the SQLite file ----
    files,            \* file name -> [content, ctime]
    wseq,             \* write counter: orders the files' creation times
    db,               \* table name -> [exists, data, indexes]
    \* ---- database_loader.py: one invocation ----
    load_status,      \* result of the most recent load, and what it read
    \* ---- calculate_market_metrics applied to one frame ----
    hist,             \* the frame handed to calculate_market_metrics
    price_data,       \* [called, frame]: the frame it returned
    \* ---- report rules applied to one value ----
    volatility_30d,   \* a stock_prices.volatility_30d value
    risk_category,    \* [sql, simple]: the category each script assigns
    mean_returns,     \* avg daily return of three competitors
    performance_rank, \* [sql, simple]: the rank column each script produces
    comp_df,          \* the competitors' in-window rows: symbol, daily_change
    positive_days_pct, \* [sql, simple]: the rows (symbol, positive_days_pct) produced
    daily_change,     \* a stock_prices.daily_change value
    performance_category, \* [sql, simple]: the category each script assigns
    \* ---- tableau_data_prep.py / tableau_data_simple.py: one invocation ----
    report_run,       \* the most recent reporter invocation: its connection and output
    \* ---- create_improved_dashboard.py: one run of main() ----
    sales_db,         \* ../data/sales_data.db: is it reachable, the tables it holds
    dashboard         \* the ImprovedSalesVisualizationDashboard object and main's position

vars == <<pc, loop_i, all_price_data, all_fundamentals, price_outcome, fund_outcome,
          fetch_calls, runs, faults, save_ret, summary, files, wseq, db, load_status,
          hist, price_data, volatility_30d, risk_category, mean_returns,
          performance_rank, comp_df, positive_days_pct, daily_change,
          performance_category, report_run, sales_db, dashboard>>

collector_vars == <<pc, loop_i, all_price_data, all_fundamentals, price_outcome,
                    fund_outcome, fetch_calls, runs, faults, save_ret, summary>>
store_vars == <<files, wseq, db, load_status>>
metric_vars == <<hist, price_data>>
report_vars == <<volatility_30d, risk_category, mean_returns, performance_rank,
                 comp_df, positive_days_pct, daily_change, performance_category,
                 report_run>>
sales_vars == <<sales_db, dashboard>>

----------------------------------------------------------------------------
(* Exact arithmetic standing for pandas' float64 columns *)

Abs(x) == IF x < 0 THEN -x ELSE x

\* Euclid's algorithm; a function, so that its arguments are values
Gcd[a, b \in Nat] == IF b = 0 THEN a ELSE Gcd[b, a % b]

NaN == [n |-> 0, d |-> 0]
PosInf == [n |-> 1, d |-> 0]
NegInf == [n |-> -1, d |-> 0]

\* the representations of a float: n/d, with d = 0 for NaN and the infinities
Q == [n : Int, d : Int]

IsNaN(x) == x.n = 0 /\ x.d = 0
IsFinite(x) == x.d # 0

\* n/d in lowest terms; x/0 follows IEEE: 0/0 = NaN, x/0 = +-inf
Rat(n, d) ==
    LET norm[a, b \in Int] ==
            IF b = 0 THEN (IF a = 0 THEN NaN ELSE IF a > 0 THEN PosInf ELSE NegInf)
            ELSE LET g == Gcd[Abs(a), Abs(b)]
                     s == IF b < 0 THEN -1 ELSE 1
                 IN  [n |-> (s * a) \div g, d |-> (s * b) \div g]
    IN  norm[n, d]

Int2Rat(k) == [n |-> k, d |-> 1]

RAdd(a, b) ==
    LET add[x, y \in Q] ==
            IF IsNaN(x) \/ IsNaN(y) THEN NaN
            ELSE IF ~IsFinite(x) /\ ~IsFinite(y) THEN (IF x.n = y.n THEN x ELSE NaN)
            ELSE IF ~IsFinite(x) THEN x
            ELSE IF ~IsFinite(y) THEN y
            ELSE Rat(x.n * y.d + y.n * x.d, x.d * y.d)
    IN  add[a, b]

RNeg(x) == [n |-> -x.n, d |-> x.d]

RSubSwapped(x, y) == RAdd(y, RNeg(x))

RSub(x, y) == RAdd(x, RNeg(y))

RMul(a, b) ==
    LET mul[x, y \in Q] ==
            IF IsNaN(x) \/ IsNaN(y) THEN NaN
            ELSE Rat(x.n * y.n, x.d * y.d)
    IN  mul[a, b]

RDiv(a, b) ==
    LET div[x, y \in Q] ==
            IF IsNaN(x) \/ IsNaN(y) THEN NaN
            ELSE IF ~IsFinite(y) THEN (IF IsFinite(x) THEN Int2Rat(0) ELSE NaN)
            ELSE IF ~IsFinite(x) THEN (IF y.n < 0 THEN RNeg(x) ELSE x)
            ELSE Rat(x.n * y.d, x.d * y.n)
    IN  div[a, b]

\* float comparison: every comparison with NaN is false
RGt(x, y) == ~IsNaN(x) /\ ~IsNaN(y) /\
    IF IsFinite(x) /\ IsFinite(y) THEN x.n * y.d > y.n * x.d
    ELSE IF IsFinite(x) THEN y = NegInf
    ELSE IF IsFinite(y) THEN x = PosInf
    ELSE x = PosInf /\ y = NegInf

RLe(x, y) == ~IsNaN(x) /\ ~IsNaN(y) /\ ~RGt(x, y)

\* a standard deviation, kept by its square
Std(variance) == [sq |-> variance]
StdOf(x) == [sq |-> RMul(x, x)]
StdIsNaN(s) == IsNaN(s.sq)
\* s > t and s <= t for a standard deviation s >= 0 and a bound t >= 0
StdGt(s, t) == RGt(s.sq, RMul(t, t))
StdLe(s, t) == RLe(s.sq, RMul(t, t))

\* the sum of s[lo..hi], by halves
RECURSIVE RSumRange(_, _, _)
RSumRange(s, lo, hi) ==
    IF lo > hi THEN Int2Rat(0)
    ELSE IF lo = hi THEN s[lo]
    ELSE LET mid == (lo + hi) \div 2
         IN  RAdd(RSumRange(s, lo, mid), RSumRange(s, mid + 1, hi))
RSum(s) == RSumRange(s, 1, Len(s))

HasNaN(s) == \E k \in 1..Len(s) : IsNaN(s[k])

\* Series.mean() of a window without missing values
MeanNoDivide(s) == RSum(s)
Mean(s) == RDiv(RSum(s), Int2Rat(Len(s)))

\* the standard deviation with ddof = 0
PopulationStd(s) ==
    LET m == Mean(s)
        ss == RSum([k \in 1..Len(s) |-> RMul(RSub(s[k], m), RSub(s[k], m))])
    IN  Std(RDiv(ss, Int2Rat(Len(s))))

\* Series.std() of a window: pandas' default ddof = 1
SampleStd(s) ==
    LET m == Mean(s)
        ss == RSum([k \in 1..Len(s) |-> RMul(RSub(s[k], m), RSub(s[k], m))])
    IN  Std(RDiv(ss, Int2Rat(Len(s) - 1)))

----------------------------------------------------------------------------
(* Data frames *)

\* Python's None where a frame is expected
NoFrame == << >>

NRows(frame) == Len(frame["Date"])

\* frame[col] = values
SetCol(frame, col, values) ==
    [c \in DOMAIN frame \cup {col} |-> IF c = col THEN values ELSE frame[c]]

DropNaN(s) == LET Valid(x) == ~IsNaN(x) IN SelectSeq(s, Valid)

\* Series.rolling(window): min_periods defaults to the window size
MinPeriodsWindowOff(window) == window - 1
MinPeriods(window) == window

\* the observations of the trailing window that ends at row i
Window(s, window, i) == DropNaN(SubSeq(s, IF i - window + 1 < 1 THEN 1 ELSE i - window + 1, i))

RollingMean(s, window) ==
    [i \in 1..Len(s) |->
        LET w == Window(s, window, i)
        IN  IF Len(w) < MinPeriods(window) THEN NaN ELSE Mean(w)]

RollingStd(s, window) ==
    [i \in 1..Len(s) |->
        LET w == Window(s, window, i)
        IN  IF Len(w) < MinPeriods(window) THEN Std(NaN) ELSE SampleStd(w)]

\* Series.shift(1)
Shift(s) == [i \in 1..Len(s) |-> IF i = 1 THEN NaN ELSE s[i - 1]]

\* Series.pct_change(): data / data.shift(1) - 1
PctChangeNoShift(s) == [i \in 1..Len(s) |-> RSub(RDiv(s[i], s[1]), Int2Rat(1))]
PctChange(s) == [i \in 1..Len(s) |-> RSub(RDiv(s[i], Shift(s)[i]), Int2Rat(1))]

\* Series.diff(): data - data.shift(1)
Diff(s) == [i \in 1..Len(s) |-> RSub(s[i], Shift(s)[i])]

----------------------------------------------------------------------------
(* data_collector.py: calculate_market_metrics *)

WindowShort == 7
WindowLong == 30

\* the assignments of lines 77..92, in program order
MetricSteps == <<"Volatility_30d", "Daily_Change", "Daily_Change_Abs", "MA_7",
                 "MA_30", "Volume_MA_7", "Volume_Ratio", "Daily_Range">>

\* the columns an assignment reads: a missing one raises KeyError
StepReads(step) ==
    CASE step \in {"Volatility_30d", "Daily_Change", "Daily_Change_Abs", "MA_7", "MA_30"}
            -> {"Close"}
      [] step = "Volume_MA_7" -> {"Volume"}
      [] step = "Volume_Ratio" -> {"Volume", "Volume_MA_7"}
      [] step = "Daily_Range" -> {"High", "Low", "Close"}

StepValue(step, f) ==
    CASE step = "Volatility_30d" -> RollingStd(f["Close"], WindowLong)
      [] step = "Daily_Change" -> PctChange(f["Close"])
      [] step = "Daily_Change_Abs" -> Diff(f["Close"])
      [] step = "MA_7" -> RollingMean(f["Close"], WindowShort)
      [] step = "MA_30" -> RollingMean(f["Close"], WindowLong)
      [] step = "Volume_MA_7" -> RollingMean(f["Volume"], WindowShort)
      [] step = "Volume_Ratio" ->
            [i \in 1..NRows(f) |-> RDiv(f["Volume"][i], f["Volume_MA_7"][i])]
      [] step = "Daily_Range" ->
            [i \in 1..NRows(f) |->
                RMul(RDiv(RSub(f["High"][i], f["Low"][i]), f["Close"][i]), Int2Rat(100))]

StepRaises(step, f) == ~(StepReads(step) \subseteq DOMAIN f)

\* the try block from its k-th assignment on; the except clause returns
\* price_data, the object the earlier assignments already wrote to
RECURSIVE MetricsFrom(_, _)
MetricsFrom(f, k) ==
    IF k > Len(MetricSteps) THEN f
    ELSE IF StepRaises(MetricSteps[k], f) THEN f
    ELSE CHOOSE r \in {MetricsFrom(g, k + 1) :
                        g \in {SetCol(f, MetricSteps[k], StepValue(MetricSteps[k], f))}} : TRUE

CalculateMarketMetrics(f) == CHOOSE r \in {MetricsFrom(g, 1) : g \in {f}} : TRUE

\* whether some assignment of the try block raises on this input
MetricsRaise(f) ==
    \E k \in 1..Len(MetricSteps) :
        /\ StepRaises(MetricSteps[k], f)
        /\ \A j \in 1..(k - 1) : ~StepRaises(MetricSteps[j], f)

----------------------------------------------------------------------------
(* config.py and the upstream market-data API *)

\* TECH_COMPANIES, in the dict's order
TECH_COMPANIES ==
    << [symbol |-> "LNVGY", name |-> "Lenovo Group Limited"],
       [symbol |-> "AAPL",  name |-> "Apple Inc."],
       [symbol |-> "MSFT",  name |-> "Microsoft Corporation"],
       [symbol |-> "HPQ",   name |-> "HP Inc."],
       [symbol |-> "DELL",  name |-> "Dell Technologies Inc."],
       [symbol |-> "IBM",   name |-> "International Business Machines"],
       [symbol |-> "INTC",  name |-> "Intel Corporation"],
       [symbol |-> "AMD",   name |-> "Advanced Micro Devices"],
       [symbol |-> "NVDA",  name |-> "NVIDIA Corporation"],
       [symbol |-> "QCOM",  name |-> "Qualcomm Incorporated"],
       [symbol |-> "SONY",  name |-> "Sony Group Corporation"],
       [symbol |-> "GOOGL", name |-> "Alphabet Inc."],
       [symbol |-> "AMZN",  name |-> "Amazon.com Inc."],
       [symbol |-> "TSLA",  name |-> "Tesla Inc."],
       [symbol |-> "META",  name |-> "Meta Platforms Inc."] >>

\* the model tracks the first NumCompanies entries of TECH_COMPANIES
NumCompanies == 2
\* collector runs explored
MaxRuns == 2
\* failures (of a fetch, of a loader step) injected in one behaviour of Spec
MaxFaults == 1
\* trading days one price fetch returns (period='90d' in the program)
PeriodDays == 3

\* self.companies
Companies == SubSeq(TECH_COMPANIES, 1, NumCompanies)
NCompanies == Len(Companies)
Symbols == {Companies[k].symbol : k \in 1..NCompanies}
CompanyIndex(sym) == CHOOSE k \in 1..Len(TECH_COMPANIES) : TECH_COMPANIES[k].symbol = sym

\* what the upstream can do on one price request / one profile request
PriceOutcomes == {"ok", "empty", "raise", "no_volume"}
FundOutcomes == {"ok", "raise"}

\* the market's quote of an entity on a day (fixed: the market is what it is)
Quote(sym, day) ==
    LET k == CompanyIndex(sym)
        close == 10 * k + day + 3 * (day % 2)
    IN  [Open |-> Int2Rat(close - 1), High |-> Int2Rat(close + 2),
         Low |-> Int2Rat(close - 2), Close |-> Int2Rat(close),
         Volume |-> Int2Rat(100 * k + 10 * (day % 3))]

QuoteColumns == {"Open", "High", "Low", "Close", "Volume"}

\* yf.Ticker(symbol).history(period): the trailing PeriodDays days up to today,
\* indexed by date; [raised, frame]
TickerHistory(sym, outcome, today) ==
    LET days == IF outcome = "empty" THEN <<>>
                ELSE [j \in 1..PeriodDays |-> today - PeriodDays + j]
        cols == IF outcome = "no_volume" THEN QuoteColumns \ {"Volume"} ELSE QuoteColumns
    IN  [raised |-> outcome = "raise",
         index  |-> [j \in 1..Len(days) |-> [day |-> days[j], time |-> "00:00:00-04:00"]],
         frame  |-> [c \in cols |-> [j \in 1..Len(days) |-> Quote(sym, days[j])[c]]]]

\* yf.Ticker(symbol).info
\* market capitalisation, in millions
MarketCapOf(sym) == 1000 * (16 - CompanyIndex(sym))
TickerInfo(sym, outcome) ==
    [raised |-> outcome = "raise",
     info |-> [marketCap |-> MarketCapOf(sym), totalRevenue |-> 1000 * CompanyIndex(sym),
               fullTimeEmployees |-> 100 * CompanyIndex(sym), sector |-> "Technology",
               industry |-> "Consumer Electronics", country |-> "United States",
               website |-> "https://example.com"]]

----------------------------------------------------------------------------
(* data_collector.py: MarketDataCollector *)

\* what a call hands back: a value, or an exception that left the function
Returned(v) == [exc |-> FALSE, ret |-> v]
Raised == [exc |-> TRUE, ret |-> NoFrame]

\* collect_daily_prices without its try/except
CollectDailyPricesNoTry(sym, outcome, today) ==
    LET h == TickerHistory(sym, outcome, today)
        n == Len(h.index)
    IN  IF h.raised THEN Raised
        ELSE IF n = 0 THEN Returned(NoFrame)
        ELSE Returned([c \in DOMAIN h.frame \cup {"Symbol", "Company", "Date"} |->
                CASE c = "Symbol" -> [j \in 1..n |-> sym]
                  [] c = "Company" -> [j \in 1..n |-> TECH_COMPANIES[CompanyIndex(sym)].name]
                  [] c = "Date" -> h.index
                  [] OTHER -> h.frame[c]])

\* collect_daily_prices without its hist.empty check
CollectDailyPricesNoEmptyCheck(sym, outcome, today) ==
    LET h == TickerHistory(sym, outcome, today)
        n == Len(h.index)
    IN  IF h.raised THEN Returned(NoFrame)
        ELSE Returned([c \in DOMAIN h.frame \cup {"Symbol", "Company", "Date"} |->
                CASE c = "Symbol" -> [j \in 1..n |-> sym]
                  [] c = "Company" -> [j \in 1..n |-> TECH_COMPANIES[CompanyIndex(sym)].name]
                  [] c = "Date" -> h.index
                  [] OTHER -> h.frame[c]])

\* collect_daily_prices: the frame with Symbol, Company and Date added, or None
\* for an empty history and for any exception
CollectDailyPrices(sym, outcome, today) ==
    LET h == TickerHistory(sym, outcome, today)
        n == Len(h.index)
    IN  IF h.raised THEN Returned(NoFrame)
        ELSE IF n = 0 THEN Returned(NoFrame)
        ELSE Returned([c \in DOMAIN h.frame \cup {"Symbol", "Company", "Date"} |->
                CASE c = "Symbol" -> [j \in 1..n |-> sym]
                  [] c = "Company" -> [j \in 1..n |-> TECH_COMPANIES[CompanyIndex(sym)].name]
                  [] c = "Date" -> h.index
                  [] OTHER -> h.frame[c]])

NoDict == [Symbol |-> ""]

\* collect_company_fundamentals: the profile dict, or None for any exception
CollectCompanyFundamentals(sym, outcome, today) ==
    LET t == TickerInfo(sym, outcome)
    IN  IF t.raised THEN Returned(NoDict)
        ELSE Returned([Symbol |-> sym,
                       Company |-> TECH_COMPANIES[CompanyIndex(sym)].name,
                       MarketCap |-> t.info.marketCap,
                       Revenue |-> t.info.totalRevenue,
                       Employees |-> t.info.fullTimeEmployees,
                       Sector |-> t.info.sector,
                       Industry |-> t.info.industry,
                       Country |-> t.info.country,
                       Website |-> t.info.website,
                       CollectionDate |-> [day |-> today, time |-> ""]])

\* pd.concat(frames, ignore_index=True): the union of the columns, a frame
\* that lacks a column contributing missing values
NullOf(col) == IF col = "Volatility_30d" THEN Std(NaN) ELSE NaN

RECURSIVE ConcatColumn(_, _)
ConcatColumn(frames, col) ==
    IF frames = <<>> THEN <<>>
    ELSE LET f == Head(frames)
             part == IF col \in DOMAIN f THEN f[col]
                     ELSE [j \in 1..NRows(f) |-> NullOf(col)]
         IN  part \o ConcatColumn(Tail(frames), col)

ConcatTwice(frames) ==
    LET twice == frames \o frames
    IN  [c \in UNION {DOMAIN twice[k] : k \in 1..Len(twice)} |-> ConcatColumn(twice, c)]

Concat(frames) ==
    [c \in UNION {DOMAIN frames[k] : k \in 1..Len(frames)} |-> ConcatColumn(frames, c)]

\* pd.DataFrame(list of dicts)
FrameOfDicts(dicts) ==
    [c \in UNION {DOMAIN dicts[k] : k \in 1..Len(dicts)} |->
        [k \in 1..Len(dicts) |-> dicts[k][c]]]

\* the columns in the order a written file lists them
ColumnOrder ==
    <<"Open", "High", "Low", "Close", "Volume", "Symbol", "Company", "Date",
      "Volatility_30d", "Daily_Change", "Daily_Change_Abs", "MA_7", "MA_30",
      "Volume_MA_7", "Volume_Ratio", "Daily_Range",
      "MarketCap", "Revenue", "Employees", "Sector", "Industry", "Country",
      "Website", "CollectionDate">>

InFrame(f) == LET Present(c) == c \in DOMAIN f IN SelectSeq(ColumnOrder, Present)

\* DataFrame.to_csv(index=False): a header line, then one line per row
ToCsv(f) ==
    LET header == InFrame(f)
        n == IF header = <<>> THEN 0 ELSE Len(f[header[1]])
    IN  [header |-> header,
         lines |-> [j \in 1..n |-> [k \in 1..Len(header) |-> f[header[k]][j]]]]

\* pd.read_csv
ReadCsv(csv) ==
    [c \in {csv.header[k] : k \in 1..Len(csv.header)} |->
        LET k == CHOOSE k \in 1..Len(csv.header) : csv.header[k] = c
        IN  [j \in 1..Len(csv.lines) |-> csv.lines[j][k]]]

\* ---- the ../data/ directory ----
LatestStamp == 0
FileName(kind, stamp) == [kind |-> kind, stamp |-> stamp]
WriteFileKeepOld(dir, name, content, ctime) ==
    [f \in DOMAIN dir \cup {name} |->
        IF f \in DOMAIN dir THEN dir[f] ELSE [content |-> content, ctime |-> ctime]]
WriteFile(dir, name, content, ctime) ==
    [f \in DOMAIN dir \cup {name} |->
        IF f = name THEN [content |-> content, ctime |-> ctime] ELSE dir[f]]
\* glob.glob('../data/<kind>_*.csv')
Glob(dir, kind) == {f \in DOMAIN dir : f.kind = kind}

NoSummary == [target |-> 0, price_collected |-> 0, fundamentals_collected |-> 0,
              success_rate |-> NaN]

InitCollector ==
    /\ pc = "idle"
    /\ loop_i = 1
    /\ all_price_data = <<>>
    /\ all_fundamentals = <<>>
    /\ price_outcome = [s \in Symbols |-> "pending"]
    /\ fund_outcome = [s \in Symbols |-> "pending"]
    /\ fetch_calls = [s \in Symbols |-> [prices |-> 0, fundamentals |-> 0]]
    /\ runs = 0
    /\ faults = 0
    /\ save_ret = <<0, 0>>
    /\ summary = NoSummary

\* main(): a new run of the collector script; collect_all_data lines 102..106
StartCollector ==
    /\ pc = "idle"
    /\ runs < MaxRuns
    /\ runs' = runs + 1
    /\ pc' = "collect"
    /\ loop_i' = 1
    /\ all_price_data' = <<>>
    /\ all_fundamentals' = <<>>
    /\ price_outcome' = [s \in Symbols |-> "pending"]
    /\ fund_outcome' = [s \in Symbols |-> "pending"]
    /\ fetch_calls' = [s \in Symbols |-> [prices |-> 0, fundamentals |-> 0]]
    /\ UNCHANGED <<faults, save_ret, summary, store_vars, metric_vars, report_vars, sales_vars>>

\* collect_all_data: one iteration of the loop over self.companies, and the
\* return after the last one.  An exception leaving a fetch method is not
\* handled in the loop and ends the script.
Failures(po, fo) == (IF po = "ok" THEN 0 ELSE 1) + (IF fo = "ok" THEN 0 ELSE 1)

FetchAttemptsWithRetry(outcome) == IF outcome \in {"raise", "empty"} THEN 2 ELSE 1

\* the loop body calls a fetch method once and goes on, whatever it returned
FetchAttempts(outcome) == 1

\* the fetched columns of a transformed frame
FetchedColumns(f) ==
    [c \in DOMAIN f \ {MetricSteps[k] : k \in 1..Len(MetricSteps)} |-> f[c]]

\* the metrics computed once over the rows collected so far followed by the
\* fetched rows, of which the fetched rows are kept
TransformOverBatch(batch, fetched) ==
    LET frames == Append([k \in 1..Len(batch) |-> FetchedColumns(batch[k])], fetched)
        combined == [c \in DOMAIN fetched |-> ConcatColumn(frames, c)]
        m == CalculateMarketMetrics(combined)
        n == NRows(fetched)
        off == NRows(combined) - n
    IN  [c \in DOMAIN m |-> SubSeq(m[c], off + 1, off + n)]

\* the loop body of collect_all_data transforms the frame it has just fetched,
\* on its own, before it is appended to the batch
TransformEntity(batch, fetched) == CalculateMarketMetrics(fetched)

ProcessCompanyStep(budget) ==
    /\ pc = "collect"
    /\ \E po \in PriceOutcomes, fo \in FundOutcomes :
        \E sym \in {Companies[loop_i].symbol} :
        \E p \in {CollectDailyPrices(sym, po, runs)},
           f \in {CollectCompanyFundamentals(sym, fo, runs)} :
        \E prices1 \in {IF p.ret # NoFrame
                        THEN Append(all_price_data, TransformEntity(all_price_data, p.ret))
                        ELSE all_price_data} :
            /\ faults + Failures(po, fo) <= budget
            /\ faults' = faults + Failures(po, fo)
            /\ price_outcome' = [price_outcome EXCEPT ![sym] = po]
            /\ IF p.exc
               THEN /\ pc' = "crashed"
                    /\ fetch_calls' = [fetch_calls EXCEPT
                                          ![sym].prices = @ + FetchAttempts(po)]
                    /\ UNCHANGED <<loop_i, all_price_data, all_fundamentals, fund_outcome>>
               ELSE /\ fetch_calls' = [fetch_calls EXCEPT
                                          ![sym].prices = @ + FetchAttempts(po),
                                          ![sym].fundamentals = @ + FetchAttempts(fo)]
                    /\ fund_outcome' = [fund_outcome EXCEPT ![sym] = fo]
                    /\ all_price_data' = prices1
                    /\ IF f.exc
                       THEN /\ pc' = "crashed"
                            /\ UNCHANGED <<loop_i, all_fundamentals>>
                       ELSE /\ all_fundamentals' =
                                   IF f.ret # NoDict THEN Append(all_fundamentals, f.ret)
                                   ELSE all_fundamentals
                            /\ loop_i' = loop_i + 1
                            /\ pc' = IF loop_i = NCompanies THEN "save" ELSE "collect"
    /\ UNCHANGED <<runs, save_ret, summary, store_vars, metric_vars, report_vars, sales_vars>>

\* save_data: the timestamped files, then the 'latest' files, each kind only
\* when its list is not empty; returns the two list lengths
SaveData ==
    /\ pc = "save"
    /\ LET timestamp == runs
           has_p == all_price_data # <<>>
           has_f == all_fundamentals # <<>>
           combined_prices == ToCsv(Concat(all_price_data))
           fundamentals_df == ToCsv(FrameOfDicts(all_fundamentals))
           d1 == IF has_p THEN WriteFile(files, FileName("stock_prices", timestamp),
                                         combined_prices, wseq + 1) ELSE files
           d2 == IF has_f THEN WriteFile(d1, FileName("company_fundamentals", timestamp),
                                         fundamentals_df, wseq + 2) ELSE d1
           d3 == IF has_p THEN WriteFile(d2, FileName("stock_prices", LatestStamp),
                                         combined_prices, wseq + 3) ELSE d2
           d4 == IF has_f THEN WriteFile(d3, FileName("company_fundamentals", LatestStamp),
                                         fundamentals_df, wseq + 4) ELSE d3
       IN  /\ files' = d4
           /\ wseq' = wseq + 4
    /\ save_ret' = <<Len(all_price_data), Len(all_fundamentals)>>
    /\ pc' = "report"
    /\ UNCHANGED <<loop_i, all_price_data, all_fundamentals, price_outcome, fund_outcome,
                   fetch_calls, runs, faults, summary, db, load_status, metric_vars,
                   report_vars, sales_vars>>

\* generate_summary_report(companies_processed, fundamentals_collected)
GenerateSummaryReport ==
    /\ pc = "report"
    /\ summary' = [target |-> Len(Companies),
                   price_collected |-> save_ret[1],
                   fundamentals_collected |-> save_ret[2],
                   success_rate |-> RMul(Rat(save_ret[1], Len(Companies)), Int2Rat(100))]
    /\ files' = WriteFile(files, FileName("collection_report", runs), summary', wseq + 1)
    /\ wseq' = wseq + 1
    /\ pc' = "idle"
    /\ UNCHANGED <<loop_i, all_price_data, all_fundamentals, price_outcome, fund_outcome,
                   fetch_calls, runs, faults, save_ret, db, load_status, metric_vars,
                   report_vars, sales_vars>>

----------------------------------------------------------------------------
(* database_loader.py: load_data_to_database *)

Tables == {"stock_prices", "company_fundamentals"}

NoTable == [exists |-> FALSE, data |-> NoFrame, indexes |-> {}]

\* column_mapping and fundamentals_mapping
column_mapping ==
    [Open |-> "open_price", High |-> "high_price", Low |-> "low_price",
     Close |-> "close_price", Volume |-> "volume", Symbol |-> "symbol",
     Company |-> "company", Date |-> "date", Daily_Change |-> "daily_change",
     Daily_Change_Abs |-> "daily_change_abs", Volatility_30d |-> "volatility_30d",
     MA_7 |-> "ma_7", MA_30 |-> "ma_30", Volume_MA_7 |-> "volume_ma_7",
     Volume_Ratio |-> "volume_ratio", Daily_Range |-> "daily_range"]

fundamentals_mapping ==
    [Symbol |-> "symbol", Company |-> "company", MarketCap |-> "market_cap",
     Revenue |-> "revenue", Employees |-> "employees", Sector |-> "sector",
     Industry |-> "industry", Country |-> "country", Website |-> "website",
     CollectionDate |-> "collection_date"]

\* DataFrame.rename(columns=mapping)
Rename(f, mapping) ==
    LET New(c) == IF c \in DOMAIN mapping THEN mapping[c] ELSE c
    IN  [x \in {New(c) : c \in DOMAIN f} |-> f[CHOOSE c \in DOMAIN f : New(c) = x]]

\* pd.to_datetime(column).dt.date: the calendar day of each timestamp
ToDate(f, col) == [f EXCEPT ![col] = [j \in 1..Len(f[col]) |-> f[col][j].day]]

\* DataFrame.to_sql(table, if_exists=...)
ToSqlAppend(table, df) ==
    IF table.exists
    THEN [exists |-> TRUE, data |-> Concat(<<table.data, df>>), indexes |-> table.indexes]
    ELSE [exists |-> TRUE, data |-> df, indexes |-> {}]
ToSql(table, df) == [exists |-> TRUE, data |-> df, indexes |-> {}]

\* what a to_sql(if_exists='replace') that raises can leave behind: the old
\* table (DROP failed), no table (CREATE failed), or the new, empty table
\* (the INSERTs were rolled back)
FailedWriteStates == {"unchanged", "dropped", "empty"}
FailedWrite(table, df, left) ==
    CASE left = "unchanged" -> table
      [] left = "dropped" -> NoTable
      [] left = "empty" -> [exists |-> TRUE,
                            data |-> [c \in DOMAIN df |-> <<>>], indexes |-> {}]

\* the CREATE INDEX IF NOT EXISTS statements, in program order
indexes ==
    << [name |-> "idx_stock_symbol_date", table |-> "stock_prices",
        columns |-> <<"symbol", "date">>],
       [name |-> "idx_stock_date", table |-> "stock_prices", columns |-> <<"date">>],
       [name |-> "idx_stock_symbol", table |-> "stock_prices", columns |-> <<"symbol">>],
       [name |-> "idx_fundamentals_symbol", table |-> "company_fundamentals",
        columns |-> <<"symbol">>],
       [name |-> "idx_fundamentals_sector", table |-> "company_fundamentals",
        columns |-> <<"sector">>] >>

CreateNoIndexes(d, k) == d

\* the first k statements executed
CreateIndexes(d, k) ==
    [t \in Tables |->
        [d[t] EXCEPT !.indexes =
            @ \cup {indexes[j].name : j \in {j \in 1..k : indexes[j].table = t}}]]

\* max(names, key=os.path.getctime)
MostRecent(dir, names) == CHOOSE f \in names : \A g \in names : dir[g].ctime <= dir[f].ctime

\* where an invocation can fail, and the text of the exception raised there
LoadFailPoints == {"none", "read_prices", "write_prices", "read_fundamentals",
                   "write_fundamentals", "create_indexes"}
ExceptionText(fail) ==
    IF fail \in {"read_prices", "read_fundamentals"}
    THEN <<"No columns to parse from file">>
    ELSE <<"database is locked">>

\* except Exception as e: print(f"Error loading data: {e}")
ErrorLine(e) == <<"Error loading data: ">> \o e

\* the rows of a table by their keys (entity, day)
Keys(table) ==
    IF ~table.exists THEN <<>>
    ELSE LET f == table.data
             day == IF "date" \in DOMAIN f THEN f["date"] ELSE f["collection_date"]
         IN  [j \in 1..Len(f["symbol"]) |-> <<f["symbol"][j], day[j]>>]

\* what the most recent invocation did: its outcome and printed line, the
\* frames it read, the row keys the tables held when it started, the state
\* of ../data/ it saw, whether it re-ran a successful load of the same files,
\* and its database connection
NoLoad == [result |-> "none", failed_at |-> "none", printed |-> <<>>,
           prices_df |-> NoFrame, fundamentals_df |-> NoFrame,
           before |-> [t \in Tables |-> <<>>], wseq |-> 0, repeat |-> FALSE,
           conn |-> "never_opened"]

InitStore ==
    /\ files = << >>
    /\ wseq = 0
    /\ db = [t \in Tables |-> NoTable]
    /\ load_status = NoLoad

\* one invocation of load_data_to_database; failing steps are drawn from fail_points
LoadStep(fail_points, budget) ==
    /\ pc = "idle"
    /\ LET price_files == Glob(files, "stock_prices")
           fundamentals_files == Glob(files, "company_fundamentals")
           started == [NoLoad EXCEPT !.before = [t \in Tables |-> Keys(db[t])],
                                     !.wseq = wseq,
                                     !.repeat = (load_status.result = "ok"
                                                 /\ load_status.wseq = wseq)]
       IN  IF price_files = {} \/ fundamentals_files = {}
           THEN /\ load_status' = [started EXCEPT !.result = "no_files",
                                     !.printed = <<"No data files found. Run data_collector.py first.">>]
                /\ UNCHANGED <<db, faults>>
           ELSE \E fail \in fail_points, left \in FailedWriteStates, k \in 0..(Len(indexes) - 1) :
                LET latest_price_file == MostRecent(files, price_files)
                    latest_fundamentals_file == MostRecent(files, fundamentals_files)
                    prices_df ==
                        ToDate(Rename(ReadCsv(files[latest_price_file].content),
                                      column_mapping), "date")
                    fundamentals_df ==
                        ToDate(Rename(ReadCsv(files[latest_fundamentals_file].content),
                                      fundamentals_mapping), "collection_date")
                    db1 == [db EXCEPT !["stock_prices"] = ToSql(@, prices_df)]
                    db2 == [db1 EXCEPT !["company_fundamentals"] = ToSql(@, fundamentals_df)]
                    \* finally: conn.close()
                    status == [started EXCEPT !.result = IF fail = "none" THEN "ok" ELSE "error",
                                 !.conn = "closed",
                                 !.failed_at = fail,
                                 !.printed = IF fail = "none"
                                             THEN <<"Database created successfully">>
                                             ELSE ErrorLine(ExceptionText(fail))]
                IN  \* only the failure that happens has an outcome to choose
                    /\ fail \in {"write_prices", "write_fundamentals"} \/ left = "unchanged"
                    /\ fail = "create_indexes" \/ k = 0
                    /\ fail = "none" \/ faults < budget
                    /\ faults' = IF fail = "none" THEN faults ELSE faults + 1
                    /\ CASE fail = "read_prices" ->
                              /\ db' = db
                              /\ load_status' = status
                         [] fail = "write_prices" ->
                              /\ db' = [db EXCEPT !["stock_prices"] =
                                            FailedWrite(@, prices_df, left)]
                              /\ load_status' = [status EXCEPT !.prices_df = prices_df]
                         [] fail = "read_fundamentals" ->
                              /\ db' = db1
                              /\ load_status' = [status EXCEPT !.prices_df = prices_df]
                         [] fail = "write_fundamentals" ->
                              /\ db' = [db1 EXCEPT !["company_fundamentals"] =
                                            FailedWrite(@, fundamentals_df, left)]
                              /\ load_status' = [status EXCEPT !.prices_df = prices_df,
                                                   !.fundamentals_df = fundamentals_df]
                         [] fail = "create_indexes" ->
                              /\ db' = CreateIndexes(db2, k)
                              /\ load_status' = [status EXCEPT !.prices_df = prices_df,
                                                   !.fundamentals_df = fundamentals_df]
                         [] fail = "none" ->
                              /\ db' = CreateIndexes(db2, Len(indexes))
                              /\ load_status' = [status EXCEPT !.prices_df = prices_df,
                                                   !.fundamentals_df = fundamentals_df]
    /\ UNCHANGED <<pc, loop_i, all_price_data, all_fundamentals, price_outcome,
                   fund_outcome, fetch_calls, runs, save_ret, summary, files, wseq,
                   metric_vars, report_vars, sales_vars>>

----------------------------------------------------------------------------
(* The scripts, run one at a time from the command line *)

NoCall == [called |-> FALSE, frame |-> NoFrame]
NoReport == [script |-> "none", conn |-> "never_opened", result |-> "none", written |-> {},
             observations |-> <<>>, portfolio_weight_pct |-> <<>>,
             cumulative_return_pct |-> <<>>]
NoCategory == [sql |-> "", simple |-> ""]
\* no sales database at hand, and main of create_improved_dashboard.py not started
NoSalesDb == [reachable |-> FALSE, tables |-> {}, users |-> 0]
NoDashboard == [pc |-> "start", has_conn |-> FALSE, conn |-> "never_opened", attrs |-> {},
                load_error |-> FALSE, chart_error |-> "none", charts |-> {},
                results |-> "unset", raised |-> FALSE, printed |-> ""]
NoRank == [sql |-> <<>>, simple |-> <<>>]

Init ==
    /\ InitCollector
    /\ InitStore
    /\ hist = NoFrame
    /\ price_data = NoCall
    /\ volatility_30d = Std(NaN)
    /\ risk_category = NoCategory
    /\ mean_returns = <<>>
    /\ performance_rank = NoRank
    /\ comp_df = <<>>
    /\ positive_days_pct = NoRank
    /\ report_run = NoReport
    /\ daily_change = NaN
    /\ performance_category = NoCategory
    /\ sales_db = NoSalesDb
    /\ dashboard = NoDashboard

ProcessCompany == ProcessCompanyStep(MaxFaults)
LoadDataToDatabase == LoadStep(LoadFailPoints, MaxFaults)

\* the pipeline: collector runs and loader invocations in any order, with at
\* most MaxFaults injected failures
Next ==
    \/ StartCollector
    \/ ProcessCompany
    \/ SaveData
    \/ GenerateSummaryReport
    \/ LoadDataToDatabase

Spec == Init /\ [][Next]_vars

\* one run of the collector script under every assignment of fetch outcomes
FirstRun == runs = 0 /\ StartCollector
ProcessCompanyAnyOutcome == ProcessCompanyStep(2 * NCompanies)

NextRun ==
    \/ FirstRun
    \/ ProcessCompanyAnyOutcome
    \/ SaveData
    \/ GenerateSummaryReport

SpecRun == Init /\ [][NextRun]_vars
\* the script is a sequential program: it keeps running until it returns
FairSpecRun == SpecRun /\ WF_vars(NextRun)

\* collector runs in which every fetch of one kind may fail, each followed by
\* loads that do not fail
ProcessCompanyManyFail == ProcessCompanyStep(NCompanies)
LoadWithoutFailure == LoadStep({"none"}, 0)

NextRuns ==
    \/ StartCollector
    \/ ProcessCompanyManyFail
    \/ SaveData
    \/ GenerateSummaryReport
    \/ LoadWithoutFailure

SpecRuns == Init /\ [][NextRuns]_vars

----------------------------------------------------------------------------
(* calculate_market_metrics on its own: one entity's frame in, one frame out *)

\* longest series handed to calculate_market_metrics
MaxObs == 31

CloseShapes == {"flat", "low_flat", "rising", "zigzag"}
VolumeShapes == {"flat", "alternating", "none_traded"}

ShapedClose(shape, i) ==
    CASE shape = "flat" -> 100
      [] shape = "low_flat" -> 3
      [] shape = "rising" -> 100 + i
      [] shape = "zigzag" -> 100 + 5 * (i % 3)

ShapedVolume(shape, i) ==
    CASE shape = "flat" -> 1000
      [] shape = "alternating" -> 1000 + 100 * (i % 2)
      [] shape = "none_traded" -> 0

\* the price columns an upstream frame may lack
MissingColumnSets == {{}, {"Volume"}, {"High"}, {"Close"}}

\* a frame as collect_daily_prices returns it
ShapedFrame(n, cs, vs, missing) ==
    [c \in (QuoteColumns \ missing) \cup {"Symbol", "Company", "Date"} |->
        [i \in 1..n |->
            CASE c = "Symbol" -> "AAPL"
              [] c = "Company" -> "Apple Inc."
              [] c = "Date" -> [day |-> i, time |-> "00:00:00-04:00"]
              [] c = "Open" -> Int2Rat(ShapedClose(cs, i))
              [] c = "High" -> Int2Rat(ShapedClose(cs, i) + 2)
              [] c = "Low" -> Int2Rat(ShapedClose(cs, i) - 1)
              [] c = "Close" -> Int2Rat(ShapedClose(cs, i))
              [] c = "Volume" -> Int2Rat(ShapedVolume(vs, i))]]

InitMetrics ==
    /\ InitCollector
    /\ InitStore
    /\ \E n \in 1..MaxObs, cs \in CloseShapes, vs \in VolumeShapes,
          missing \in MissingColumnSets :
            hist = ShapedFrame(n, cs, vs, missing)
    /\ price_data = NoCall
    /\ volatility_30d = Std(NaN)
    /\ risk_category = NoCategory
    /\ mean_returns = <<>>
    /\ performance_rank = NoRank
    /\ comp_df = <<>>
    /\ positive_days_pct = NoRank
    /\ report_run = NoReport
    /\ daily_change = NaN
    /\ performance_category = NoCategory
    /\ sales_db = NoSalesDb
    /\ dashboard = NoDashboard

\* price_data = self.calculate_market_metrics(price_data)
CallCalculateMarketMetrics ==
    /\ ~price_data.called
    /\ price_data' = [called |-> TRUE, frame |-> CalculateMarketMetrics(hist)]
    /\ UNCHANGED <<hist, collector_vars, store_vars, report_vars, sales_vars>>

NextMetrics == CallCalculateMarketMetrics

SpecMetrics == InitMetrics /\ [][NextMetrics]_vars

----------------------------------------------------------------------------
(* collect_all_data over a universe whose fetches all succeed, on series of *)
(* chosen shapes: the transform applied entity by entity                    *)

\* entities of the batch, and the longest history one fetch returns
BatchEntities == 3
BatchObs == 10

BatchCloseShapes == {"flat", "rising"}
BatchVolumeShapes == {"flat", "alternating"}

\* what collect_daily_prices returns for the k-th entity of TECH_COMPANIES
BatchFrame(k, n, cs, vs) ==
    [ShapedFrame(n, cs, vs, {}) EXCEPT
        !["Symbol"] = [i \in 1..n |-> TECH_COMPANIES[k].symbol],
        !["Company"] = [i \in 1..n |-> TECH_COMPANIES[k].name]]

\* main has entered collect_all_data: the lists are empty, the loop is at the
\* first entity
InitBatch ==
    /\ InitStore
    /\ pc = "collect"
    /\ loop_i = 1
    /\ all_price_data = <<>>
    /\ all_fundamentals = <<>>
    /\ price_outcome = [s \in Symbols |-> "pending"]
    /\ fund_outcome = [s \in Symbols |-> "pending"]
    /\ fetch_calls = [s \in Symbols |-> [prices |-> 0, fundamentals |-> 0]]
    /\ runs = 1
    /\ faults = 0
    /\ save_ret = <<0, 0>>
    /\ summary = NoSummary
    /\ hist = NoFrame
    /\ price_data = NoCall
    /\ volatility_30d = Std(NaN)
    /\ risk_category = NoCategory
    /\ mean_returns = <<>>
    /\ performance_rank = NoRank
    /\ comp_df = <<>>
    /\ positive_days_pct = NoRank
    /\ report_run = NoReport
    /\ daily_change = NaN
    /\ performance_category = NoCategory
    /\ sales_db = NoSalesDb
    /\ dashboard = NoDashboard

\* one iteration of the loop of collect_all_data whose two fetches succeed;
\* every entity gets the same trading days (one period, one calendar); hist
\* and price_data keep the frame fetched last and its transform
CollectShaped ==
    /\ pc = "collect"
    /\ \E n \in 1..BatchObs, cs \in BatchCloseShapes, vs \in BatchVolumeShapes :
        \E fetched \in {BatchFrame(loop_i, n, cs, vs)} :
        \E transformed \in {TransformEntity(all_price_data, fetched)} :
            /\ IF loop_i = 1 THEN TRUE ELSE NRows(hist) = n
            /\ hist' = fetched
            /\ price_data' = [called |-> TRUE, frame |-> transformed]
            /\ all_price_data' = Append(all_price_data, transformed)
            /\ all_fundamentals' =
                   Append(all_fundamentals,
                          [CollectCompanyFundamentals(Companies[1].symbol, "ok", runs).ret
                              EXCEPT !.Symbol = TECH_COMPANIES[loop_i].symbol,
                                     !.Company = TECH_COMPANIES[loop_i].name])
    /\ loop_i' = loop_i + 1
    /\ pc' = IF loop_i = BatchEntities THEN "save" ELSE "collect"
    /\ UNCHANGED <<price_outcome, fund_outcome, fetch_calls, runs, faults, save_ret,
                   summary, store_vars, report_vars, sales_vars>>

NextBatch == CollectShaped

SpecBatch == InitBatch /\ [][NextBatch]_vars

\* one iteration of the loop of collect_all_data in which collect_daily_prices
\* returns None (empty history or a caught exception) and the fundamentals
\* fetch returns None as well: nothing is appended for this entity
CollectNothing ==
    /\ pc = "collect"
    /\ loop_i > 1
    /\ loop_i' = loop_i + 1
    /\ pc' = IF loop_i = BatchEntities THEN "save" ELSE "collect"
    /\ UNCHANGED <<all_price_data, all_fundamentals, price_outcome, fund_outcome,
                   fetch_calls, runs, faults, save_ret, summary, store_vars,
                   metric_vars, report_vars, sales_vars>>

NextIsolation == CollectShaped \/ CollectNothing

SpecIsolation == InitBatch /\ [][NextIsolation]_vars

----------------------------------------------------------------------------
(* tableau_data_prep.py (SQL) and tableau_data_simple.py (pandas): the rules *)
(* that bucket and rank                                                      *)

\* ---- risk_category ----
RiskLabels == {"High Risk", "Medium Risk", "Low Risk"}

\* CASE WHEN volatility_30d > 0.04 ... WHEN volatility_30d > 0.025 ... ELSE ... END;
\* a comparison with NULL is not true
SqlRiskCategory(v) ==
    IF StdGt(v, Rat(4, 100)) THEN "High Risk"
    ELSE IF StdGt(v, Rat(25, 1000)) THEN "Medium Risk"
    ELSE "Low Risk"

\* pd.cut(x, bins, labels): bins are open on the left and closed on the right
\* (right=True, include_lowest=False); a value in no bin, and NaN, get no label
CutStd(v, bins, labels) ==
    LET In(k) == StdGt(v, bins[k]) /\ StdLe(v, bins[k + 1])
    IN  IF \E k \in 1..Len(labels) : In(k)
        THEN labels[CHOOSE k \in 1..Len(labels) : In(k)]
        ELSE "NaN"

CutRiskCategory(v) ==
    CutStd(v, <<Int2Rat(0), Rat(25, 1000), Rat(4, 100), PosInf>>,
           <<"Low Risk", "Medium Risk", "High Risk">>)

\* ---- performance_category ----
\* CASE WHEN sp.daily_change > 0.02 ... > 0 ... < -0.02 ... ELSE 'Down' END;
\* a comparison with NULL is not true
SqlPerformanceCategory(x) ==
    IF RGt(x, Rat(2, 100)) THEN "Strong Up"
    ELSE IF RGt(x, Int2Rat(0)) THEN "Up"
    ELSE IF RGt(Rat(-2, 100), x) THEN "Strong Down"
    ELSE "Down"

\* pd.cut on a float column: bins open on the left and closed on the right
Cut(x, bins, labels) ==
    LET In(k) == RGt(x, bins[k]) /\ RLe(x, bins[k + 1])
    IN  IF \E k \in 1..Len(labels) : In(k)
        THEN labels[CHOOSE k \in 1..Len(labels) : In(k)]
        ELSE "NaN"

CutPerformanceCategory(x) ==
    Cut(x, <<NegInf, Rat(-2, 100), Int2Rat(0), Rat(2, 100), PosInf>>,
        <<"Strong Down", "Down", "Up", "Strong Up">>)

\* ---- performance_rank ----
\* RANK() OVER (ORDER BY x DESC): one more than the number of rows ahead
SqlRankDesc(xs) ==
    [i \in 1..Len(xs) |-> Int2Rat(1 + Cardinality({j \in 1..Len(xs) : RGt(xs[j], xs[i])}))]

\* Series.rank(ascending=False): method='average', ties share the mean of
\* the positions they occupy
PandasRankDesc(xs) ==
    [i \in 1..Len(xs) |->
        LET ahead == Cardinality({j \in 1..Len(xs) : RGt(xs[j], xs[i])})
            tied == Cardinality({j \in 1..Len(xs) : xs[j] = xs[i]})
        IN  Rat(2 * ahead + tied + 1, 2)]

\* round-half-even of n/d, d > 0
RoundHalfEven(n, d) ==
    LET q == n \div d
        r == n - q * d
    IN  IF 2 * r < d THEN q
        ELSE IF 2 * r > d THEN q + 1
        ELSE IF q % 2 = 0 THEN q ELSE q + 1

\* DataFrame.round(6)
Round6(x) == IF IsFinite(x) THEN Rat(RoundHalfEven(x.n * 1000000, x.d), 1000000) ELSE x

\* competitor_metrics.avg_daily_return_pct, then performance_rank
SqlPerformanceRank(returns) ==
    SqlRankDesc([i \in 1..Len(returns) |-> RMul(returns[i], Int2Rat(100))])

SimplePerformanceRank(returns) ==
    PandasRankDesc([i \in 1..Len(returns) |-> RMul(Round6(returns[i]), Int2Rat(100))])

\* ---- positive_days_pct ----
\* index labels of a pandas object: a symbol (the index groupby('symbol')
\* produces) or a position (the RangeIndex reset_index() produces)
SymbolLabel(sym) == [sym |-> sym, pos |-> -1]
RangeLabel(k) == [sym |-> "", pos |-> k]

\* competitors, in the order groupby sorts the group keys
competitors == <<"AAPL", "DELL", "HPQ", "IBM", "LNVGY", "MSFT">>

RowsOfSymbol(rows, sym) == LET Of(r) == r.symbol = sym IN SelectSeq(rows, Of)
GroupKeys(rows) == LET Present(sym) == RowsOfSymbol(rows, sym) # <<>>
                   IN  SelectSeq(competitors, Present)

\* comp_df[comp_df['daily_change'] > 0]: a comparison with NaN is False
PositiveRows(rows) == LET Pos(r) == RGt(r.daily_change, Int2Rat(0)) IN SelectSeq(rows, Pos)

\* rows.groupby('symbol').size(): a Series indexed by the symbols present
GroupBySize(rows) ==
    [l \in {SymbolLabel(rows[i].symbol) : i \in 1..Len(rows)} |->
        Int2Rat(Len(RowsOfSymbol(rows, l.sym)))]

\* a / b on two Series: aligned on the union of the indexes, NaN where a
\* label is missing on one side
SeriesDiv(a, b) ==
    [l \in DOMAIN a \cup DOMAIN b |->
        IF l \in DOMAIN a /\ l \in DOMAIN b THEN RDiv(a[l], b[l]) ELSE NaN]
SeriesTimes(a, x) == [l \in DOMAIN a |-> RMul(a[l], x)]
FillNa(a, x) == [l \in DOMAIN a |-> IF IsNaN(a[l]) THEN x ELSE a[l]]

\* frame[col] = series: the series is reindexed to the frame's index, a row
\* whose label the series does not have gets NaN
AssignAligned(index, series) ==
    [k \in 1..Len(index) |-> IF index[k] \in DOMAIN series THEN series[index[k]] ELSE NaN]

\* tableau_data_simple.py: comp_metrics after reset_index() has the index
\* 0..n-1 and the symbol as a column
SimplePositiveDaysPct(rows) ==
    LET keys == GroupKeys(rows)
        index == [k \in 1..Len(keys) |-> RangeLabel(k - 1)]
        positive_days == GroupBySize(PositiveRows(rows))
        total_days == GroupBySize(rows)
        pct == FillNa(SeriesTimes(SeriesDiv(positive_days, total_days), Int2Rat(100)),
                      Int2Rat(0))
        column == AssignAligned(index, pct)
    IN  [k \in 1..Len(keys) |-> [symbol |-> keys[k], positive_days_pct |-> column[k]]]

\* tableau_data_prep.py:
\* COUNT(CASE WHEN sp.daily_change > 0 THEN 1 END) * 100.0 / COUNT(*) ... GROUP BY
SqlPositiveDaysPct(rows) ==
    LET keys == GroupKeys(rows)
    IN  [k \in 1..Len(keys) |->
            [symbol |-> keys[k],
             positive_days_pct |->
                 Rat(Len(PositiveRows(RowsOfSymbol(rows, keys[k]))) * 100,
                     Len(RowsOfSymbol(rows, keys[k])))]]

\* in-window rows of the competitors: daily_change in percent points / 100
ChangesOf(sym, changes) ==
    [i \in 1..Len(changes) |-> [symbol |-> sym, daily_change |-> changes[i]]]
CompDfCases ==
    {ChangesOf("AAPL", <<NaN, Rat(1, 100), Rat(-1, 100), Int2Rat(0)>>)
        \o ChangesOf("LNVGY", <<NaN, Rat(2, 100), Rat(1, 100)>>),
     ChangesOf("LNVGY", <<Rat(1, 100)>>)
        \o ChangesOf("AAPL", <<Rat(-1, 100), Rat(-1, 100)>>),
     ChangesOf("AAPL", <<Rat(1, 100), Rat(-1, 100)>>)
        \o ChangesOf("LNVGY", <<Rat(1, 100)>>)
        \o ChangesOf("MSFT", <<Rat(-2, 100)>>)}

\* largest volatility fed to the bucketing rule, in thousandths
MaxVolMilli == 50

VolatilityValues == {StdOf(Rat(k, 1000)) : k \in 0..MaxVolMilli} \cup {Std(NaN)}
ReturnValues == {Rat(-1, 100), Int2Rat(0), Rat(2, 100)}

InitReport ==
    /\ InitCollector
    /\ InitStore
    /\ hist = NoFrame
    /\ price_data = NoCall
    /\ volatility_30d \in VolatilityValues
    /\ risk_category = NoCategory
    /\ mean_returns \in [1..3 -> ReturnValues]
    /\ performance_rank = NoRank
    /\ comp_df \in CompDfCases
    /\ positive_days_pct = NoRank
    /\ report_run = NoReport
    /\ daily_change = NaN
    /\ performance_category = NoCategory
    /\ sales_db = NoSalesDb
    /\ dashboard = NoDashboard

\* the performance_category and risk_category columns of
\* executive_summary.csv, by either script
ExecutiveSummary ==
    /\ risk_category = NoCategory
    /\ risk_category' = [sql |-> SqlRiskCategory(volatility_30d),
                         simple |-> CutRiskCategory(volatility_30d)]
    /\ performance_category' = [sql |-> SqlPerformanceCategory(daily_change),
                                simple |-> CutPerformanceCategory(daily_change)]
    /\ UNCHANGED <<volatility_30d, mean_returns, performance_rank, comp_df,
                   positive_days_pct, daily_change, report_run, collector_vars,
                   store_vars, metric_vars, sales_vars>>

\* competitive_query calls STDDEV, which is not among SQLite's built-in
\* aggregates and which the script does not register: read_sql_query raises
\* unless the SQLite library in use supplies it, and no dataset is written
QueryFailed == << >>

\* the performance_rank and positive_days_pct columns of
\* competitive_analysis.csv, by either script
CompetitiveAnalysis ==
    /\ performance_rank = NoRank
    /\ \E has_stddev \in BOOLEAN :
         /\ performance_rank' = [sql |-> IF has_stddev THEN SqlPerformanceRank(mean_returns)
                                         ELSE QueryFailed,
                                 simple |-> SimplePerformanceRank(mean_returns)]
         /\ positive_days_pct' = [sql |-> IF has_stddev THEN SqlPositiveDaysPct(comp_df)
                                          ELSE QueryFailed,
                                  simple |-> SimplePositiveDaysPct(comp_df)]
    /\ UNCHANGED <<volatility_30d, risk_category, mean_returns, comp_df, report_run,
                   daily_change, performance_category, collector_vars, store_vars,
                   metric_vars, sales_vars>>

NextReport ==
    \/ ExecutiveSummary
    \/ CompetitiveAnalysis

SpecReport == InitReport /\ [][NextReport]_vars

\* the executive summary rules on one observation whose daily_change runs
\* over the thousandths around the thresholds, and null
MaxChangeMilli == 60
DailyChangeValues ==
    {Rat(k, 1000) : k \in (-MaxChangeMilli)..MaxChangeMilli} \cup {NaN}
CategoryVolatilities == {StdOf(Rat(3, 100)), Std(NaN)}

InitCategory ==
    /\ InitCollector
    /\ InitStore
    /\ hist = NoFrame
    /\ price_data = NoCall
    /\ volatility_30d \in CategoryVolatilities
    /\ risk_category = NoCategory
    /\ mean_returns = <<>>
    /\ performance_rank = NoRank
    /\ comp_df = <<>>
    /\ positive_days_pct = NoRank
    /\ report_run = NoReport
    /\ daily_change \in DailyChangeValues
    /\ performance_category = NoCategory
    /\ sales_db = NoSalesDb
    /\ dashboard = NoDashboard

NextCategory == ExecutiveSummary

SpecCategory == InitCategory /\ [][NextCategory]_vars

----------------------------------------------------------------------------
(* tableau_data_prep.py and tableau_data_simple.py as invocations: the       *)
(* connection they open and the queries they send                            *)

\* a script that goes on to sqlite3.connect without looking for the file
DatabaseAssumed == TRUE

\* os.path.exists(db_path): sqlite3.connect in the loader creates the file
DatabaseExists == load_status.result \in {"ok", "error"}

\* the columns each SELECT names, by table
SharedFundamentals == {"symbol", "company", "sector", "market_cap"}
executive_query ==
    [name |-> "executive_summary", needs_stddev |-> FALSE,
     reads |-> [stock_prices |-> {"symbol", "date", "close_price", "daily_change", "volume",
                                  "volatility_30d", "ma_7", "ma_30"},
                company_fundamentals |-> SharedFundamentals]]
competitive_query ==
    [name |-> "competitive_analysis", needs_stddev |-> TRUE,
     reads |-> [stock_prices |-> {"symbol", "date", "close_price", "daily_change", "volume"},
                company_fundamentals |-> SharedFundamentals]]
risk_query ==
    [name |-> "risk_analysis", needs_stddev |-> FALSE,
     reads |-> [stock_prices |-> {"symbol", "date", "daily_change", "volatility_30d",
                                  "volume"},
                company_fundamentals |-> SharedFundamentals]]
timeseries_query ==
    [name |-> "timeseries_data", needs_stddev |-> FALSE,
     reads |-> [stock_prices |-> {"symbol", "date", "close_price", "daily_change", "volume",
                                  "ma_7", "ma_30"},
                company_fundamentals |-> SharedFundamentals]]
prices_query ==
    [name |-> "df", needs_stddev |-> FALSE,
     reads |-> [stock_prices |-> {"symbol", "company", "date", "open_price", "high_price",
                                  "low_price", "close_price", "volume", "daily_change",
                                  "daily_change_abs", "volatility_30d", "ma_7", "ma_30",
                                  "volume_ma_7", "volume_ratio", "daily_range"},
                company_fundamentals |-> {"symbol", "market_cap", "revenue", "employees",
                                          "sector", "industry", "country", "website"}]]

\* WHERE sp.date >= date('2025-09-01', '-90 days'): the first day of the
\* window, on the scale of the modelled days
WindowStartDay == 0

\* FROM stock_prices sp JOIN company_fundamentals cf ON sp.symbol = cf.symbol
\* WHERE sp.date >= ...: the pairs (row of sp, row of cf) selected, in sp order
RECURSIVE JoinFrom(_, _, _)
JoinFrom(sp, cf, i) ==
    IF i > Len(sp["symbol"]) THEN <<>>
    ELSE LET Matches(j) == cf["symbol"][j] = sp["symbol"][i]
             matched == IF sp["date"][i] >= WindowStartDay
                        THEN SelectSeq([j \in 1..Len(cf["symbol"]) |-> j], Matches)
                        ELSE <<>>
         IN  [k \in 1..Len(matched) |-> [sp |-> i, cf |-> matched[k]]]
                 \o JoinFrom(sp, cf, i + 1)
JoinOnSymbol(d) == JoinFrom(d["stock_prices"].data, d["company_fundamentals"].data, 1)

\* the (symbol, date) of each selected row
ObservationsOf(d, joined) ==
    [k \in 1..Len(joined) |->
        <<d["stock_prices"].data["symbol"][joined[k].sp],
          d["stock_prices"].data["date"][joined[k].sp]>>]

ReadSqlQueryDropping(d, query, has_stddev) ==
    [raised |-> FALSE, db |-> [t \in Tables |-> NoTable], rows |-> <<>>]

\* pd.read_sql_query(query, conn): raises when a table or a column the
\* SELECT names is missing, or a function it calls; a SELECT leaves the
\* database as it is
ReadSqlQuery(d, query, has_stddev) ==
    LET raised == \/ \E t \in Tables :
                        ~d[t].exists \/ ~(query.reads[t] \subseteq DOMAIN d[t].data)
                  \/ query.needs_stddev /\ ~has_stddev
    IN  [raised |-> raised,
         db |-> d,
         rows |-> IF raised THEN <<>> ELSE ObservationsOf(d, JoinOnSymbol(d))]

\* the queries of create_tableau_datasets in program order, each followed by
\* the to_csv of its result; stops at the first that raises
RECURSIVE RunQueries(_, _, _, _)
RunQueries(d, queries, has_stddev, written) ==
    IF queries = <<>> THEN [raised |-> FALSE, db |-> d, written |-> written]
    ELSE LET r == ReadSqlQuery(d, Head(queries), has_stddev)
         IN  IF r.raised THEN [raised |-> TRUE, db |-> r.db, written |-> written]
             ELSE RunQueries(r.db, Tail(queries), has_stddev,
                             written \cup {Head(queries).name})

\* ---- portfolio_weight_pct ----
RECURSIVE SumInts(_)
SumInts(xs) == IF xs = <<>> THEN 0 ELSE Head(xs) + SumInts(Tail(xs))

\* x / y in SQLite: between two INTEGER values the division truncates, and
\* a division by zero gives NULL
SqlIntegerDivide(x, y) == IF y = 0 THEN NaN ELSE Int2Rat(x \div y)

\* risk_query: cf.market_cap / (SELECT SUM(market_cap) FROM company_fundamentals) * 100
\* for each selected row; market_cap is an INTEGER column
SqlPortfolioWeight(d) ==
    LET joined == JoinOnSymbol(d)
        cf == d["company_fundamentals"].data
        total == SumInts(cf["market_cap"])
    IN  [k \in 1..Len(joined) |->
            [symbol |-> cf["symbol"][joined[k].cf],
             portfolio_weight_pct |->
                 RMul(SqlIntegerDivide(cf["market_cap"][joined[k].cf], total), Int2Rat(100))]]

\* (risk_df['market_cap'] / risk_df['market_cap'].sum()) * 100: the sum runs
\* over the rows of risk_df, one per selected observation
SimplePortfolioWeight(d) ==
    LET joined == JoinOnSymbol(d)
        cf == d["company_fundamentals"].data
        market_cap == [k \in 1..Len(joined) |-> cf["market_cap"][joined[k].cf]]
        total == SumInts(market_cap)
    IN  [k \in 1..Len(joined) |->
            [symbol |-> cf["symbol"][joined[k].cf],
             portfolio_weight_pct |->
                 RMul(RDiv(Int2Rat(market_cap[k]), Int2Rat(total)), Int2Rat(100))]]

\* ---- cumulative_return_pct ----
\* the first close of the partition over every row of the table, selected or not
FirstValueOfTable(sp, joined, k) ==
    LET part == {i \in 1..Len(sp["symbol"]) : sp["symbol"][i] = sp["symbol"][joined[k].sp]}
        first == CHOOSE i \in part : \A m \in part : sp["date"][i] <= sp["date"][m]
    IN  sp["close_price"][first]

\* FIRST_VALUE(sp.close_price) OVER (PARTITION BY sp.symbol ORDER BY sp.date)
\* at the k-th selected row: the window runs over the rows the WHERE kept
FirstValue(sp, joined, k) ==
    LET part == {j \in 1..Len(joined) : sp["symbol"][joined[j].sp] = sp["symbol"][joined[k].sp]}
        first == CHOOSE j \in part : \A m \in part :
                     sp["date"][joined[j].sp] <= sp["date"][joined[m].sp]
    IN  sp["close_price"][joined[first].sp]

\* timeseries_query:
\* (sp.close_price / FIRST_VALUE(...) - 1) * 100 as cumulative_return_pct
SqlCumulativeReturn(d) ==
    LET joined == JoinOnSymbol(d)
        sp == d["stock_prices"].data
    IN  [k \in 1..Len(joined) |->
            [symbol |-> sp["symbol"][joined[k].sp],
             date |-> sp["date"][joined[k].sp],
             cumulative_return_pct |->
                 RMul(RSub(RDiv(sp["close_price"][joined[k].sp], FirstValue(sp, joined, k)),
                           Int2Rat(1)),
                      Int2Rat(100))]]

\* the tickers in the order Python compares their strings
SymbolsSorted ==
    <<"AAPL", "AMD", "AMZN", "DELL", "GOOGL", "HPQ", "IBM", "INTC", "LNVGY", "META",
      "MSFT", "NVDA", "QCOM", "SONY", "TSLA">>
SymbolRank(sym) == CHOOSE r \in 1..Len(SymbolsSorted) : SymbolsSorted[r] = sym

\* ts_df.sort_values(['symbol', 'date']): a stable sort of the rows
RECURSIVE SortValues(_)
SortValues(rows) ==
    IF rows = <<>> THEN <<>>
    ELSE LET x == Head(rows)
             rest == SortValues(Tail(rows))
             Le(r) == \/ SymbolRank(r.symbol) < SymbolRank(x.symbol)
                      \/ r.symbol = x.symbol /\ r.date < x.date
             NotLe(r) == ~Le(r)
         IN  SelectSeq(rest, Le) \o <<x>> \o SelectSeq(rest, NotLe)

\* ts_df['cumulative_return_pct'] = 0.0, then for each symbol the rows under
\* its mask get ((prices / prices[0]) - 1) * 100
SimpleCumulativeReturn(d) ==
    LET joined == JoinOnSymbol(d)
        sp == d["stock_prices"].data
        ts_df == SortValues([k \in 1..Len(joined) |->
                                [symbol |-> sp["symbol"][joined[k].sp],
                                 date |-> sp["date"][joined[k].sp],
                                 close_price |-> sp["close_price"][joined[k].sp]]])
        Prices(sym) == LET Mask(r) == r.symbol = sym
                           masked == SelectSeq(ts_df, Mask)
                       IN  [j \in 1..Len(masked) |-> masked[j].close_price]
    IN  [k \in 1..Len(ts_df) |->
            [symbol |-> ts_df[k].symbol,
             date |-> ts_df[k].date,
             cumulative_return_pct |->
                 LET prices == Prices(ts_df[k].symbol)
                     base_price == prices[1]
                 IN  RMul(RSub(RDiv(ts_df[k].close_price, base_price), Int2Rat(1)),
                          Int2Rat(100))]]

\* the rows of executive_summary.csv, when the query that selects them ran
ExecutiveRows(d, written) ==
    IF "executive_summary" \in written
    THEN ReadSqlQuery(d, executive_query, FALSE).rows
    ELSE <<>>

\* one invocation of create_tableau_datasets: conn.close() is the statement
\* after the last query
CreateTableauDatasets ==
    /\ pc = "idle"
    /\ IF ~DatabaseExists
       THEN /\ report_run' = [NoReport EXCEPT !.script = "tableau_data_prep",
                                              !.result = "no_database"]
            /\ db' = db
       ELSE \E has_stddev \in BOOLEAN :
            \E r \in {RunQueries(db, <<executive_query, competitive_query, risk_query,
                                       timeseries_query>>, has_stddev, {})} :
                /\ report_run' = [script |-> "tableau_data_prep",
                                  conn |-> IF r.raised THEN "open" ELSE "closed",
                                  result |-> IF r.raised THEN "raised" ELSE "ok",
                                  written |-> r.written,
                                  observations |-> ExecutiveRows(db, r.written),
                                  portfolio_weight_pct |->
                                      IF "risk_analysis" \in r.written
                                      THEN SqlPortfolioWeight(db) ELSE <<>>,
                                  cumulative_return_pct |->
                                      IF "timeseries_data" \in r.written
                                      THEN SqlCumulativeReturn(db) ELSE <<>>]
                /\ db' = r.db
    /\ UNCHANGED <<collector_vars, files, wseq, load_status, metric_vars, volatility_30d,
                   risk_category, mean_returns, performance_rank, comp_df,
                   positive_days_pct, daily_change, performance_category, sales_vars>>

\* one invocation of create_tableau_datasets_simple: one query, conn.close()
\* is the statement after it, the four datasets are computed from its result
CreateTableauDatasetsSimple ==
    /\ pc = "idle"
    /\ IF ~DatabaseExists
       THEN /\ report_run' = [NoReport EXCEPT !.script = "tableau_data_simple",
                                              !.result = "no_database"]
            /\ db' = db
       ELSE \E r \in {ReadSqlQuery(db, prices_query, FALSE)} :
                /\ report_run' = [script |-> "tableau_data_simple",
                                  conn |-> IF r.raised THEN "open" ELSE "closed",
                                  result |-> IF r.raised THEN "raised" ELSE "ok",
                                  written |-> IF r.raised THEN {}
                                              ELSE {"executive_summary", "competitive_analysis",
                                                    "risk_analysis", "timeseries_data"},
                                  observations |-> r.rows,
                                  portfolio_weight_pct |->
                                      IF r.raised THEN <<>> ELSE SimplePortfolioWeight(db),
                                  cumulative_return_pct |->
                                      IF r.raised THEN <<>> ELSE SimpleCumulativeReturn(db)]
                /\ db' = r.db
    /\ UNCHANGED <<collector_vars, files, wseq, load_status, metric_vars, volatility_30d,
                   risk_category, mean_returns, performance_rank, comp_df,
                   positive_days_pct, daily_change, performance_category, sales_vars>>

\* one run of the collector, then loader and reporters in any order
NextReporters ==
    \/ FirstRun
    \/ ProcessCompany
    \/ SaveData
    \/ GenerateSummaryReport
    \/ LoadDataToDatabase
    \/ CreateTableauDatasets
    \/ CreateTableauDatasetsSimple

SpecReporters == Init /\ [][NextReporters]_vars

\* one collector run in which any number of fetches may fail, then loader and
\* report scripts in any order, the loader's own steps not failing
NextGuards ==
    \/ FirstRun
    \/ ProcessCompanyManyFail
    \/ SaveData
    \/ GenerateSummaryReport
    \/ LoadWithoutFailure
    \/ CreateTableauDatasets
    \/ CreateTableauDatasetsSimple

SpecGuards == Init /\ [][NextGuards]_vars

----------------------------------------------------------------------------
(* create_improved_dashboard.py: ImprovedSalesVisualizationDashboard, main   *)

\* the tables load_data reads, in the order it reads them
SalesTables == <<"products", "users", "carts", "cart_items">>

\* rows of the users table explored
MaxUsers == 2

\* the sales databases explored: the directory of sales_data.db may be
\* missing (sqlite3.connect then raises), any of the tables may be missing
SalesDatabases ==
    {NoSalesDb} \cup
    {[reachable |-> TRUE, tables |-> ts, users |-> u] :
        ts \in SUBSET {SalesTables[k] : k \in 1..Len(SalesTables)}, u \in 0..MaxUsers}

\* load_data: connect, then one read_sql_query per table; the first
\* exception ends the try block and is printed; the attributes assigned
\* before it stay assigned
LoadData(sdb) ==
    LET Missing(k) == SalesTables[k] \notin sdb.tables
        failing == {k \in 1..Len(SalesTables) : Missing(k)}
        stop == IF failing = {} THEN Len(SalesTables) + 1
                ELSE CHOOSE k \in failing : \A m \in failing : k <= m
    IN  IF ~sdb.reachable
        THEN [has_conn |-> FALSE, attrs |-> {}, load_error |-> TRUE]
        ELSE [has_conn |-> TRUE,
              attrs |-> {SalesTables[k] : k \in 1..(stop - 1)},
              load_error |-> failing # {}]

\* dashboard = ImprovedSalesVisualizationDashboard(): __init__ calls load_data
Construct ==
    /\ dashboard.pc = "start"
    /\ LET l == LoadData(sales_db)
       IN  dashboard' = [dashboard EXCEPT !.pc = "constructed",
                                          !.has_conn = l.has_conn,
                                          !.conn = IF l.has_conn THEN "open" ELSE @,
                                          !.attrs = l.attrs,
                                          !.load_error = l.load_error]
    /\ UNCHANGED <<sales_db, collector_vars, store_vars, metric_vars, report_vars>>

\* the charts in the order they are saved
ChartSteps == <<"main_dashboard", "revenue", "segment">>

\* the frames a chart is drawn from
ChartReads(chart) ==
    CASE chart = "main_dashboard" -> {"products", "users", "carts"}
      [] chart = "revenue" -> {"products"}
      [] chart = "segment" -> {"users"}

\* does drawing a chart raise: a frame that was never assigned
\* (AttributeError), repeat_customers / len(self.users_df) with no user
\* (ZeroDivisionError), or a failure of the plotting library
ChartRaises(chart, attrs, sdb, failing) ==
    \/ ~(ChartReads(chart) \subseteq attrs)
    \/ chart = "main_dashboard" /\ sdb.users = 0
    \/ chart = failing

\* the charts saved before the first that raises
RECURSIVE ChartsCreated(_, _, _, _)
ChartsCreated(steps, attrs, sdb, failing) ==
    IF steps = <<>> THEN {}
    ELSE IF ChartRaises(Head(steps), attrs, sdb, failing) THEN {}
    ELSE {Head(steps)} \cup ChartsCreated(Tail(steps), attrs, sdb, failing)

AllCharts == {ChartSteps[k] : k \in 1..Len(ChartSteps)}

\* the chart step that raised, "none" when every chart was saved
RECURSIVE FirstNotCreated(_, _)
FirstNotCreated(steps, charts) ==
    IF steps = <<>> THEN "none"
    ELSE IF Head(steps) \notin charts THEN Head(steps)
    ELSE FirstNotCreated(Tail(steps), charts)

\* generate_all_improved_visualizations: the chart steps and the summary
\* statistics under try, except Exception returns None, finally closes the
\* connection if the attribute exists
GenerateAllImprovedVisualizations ==
    /\ dashboard.pc = "constructed"
    /\ \E failing \in AllCharts \cup {"none"} :
        LET charts == ChartsCreated(ChartSteps, dashboard.attrs, sales_db, failing)
            completed == charts = AllCharts /\ {"carts", "users"} \subseteq dashboard.attrs
        IN  dashboard' = [dashboard EXCEPT
                             !.pc = "generated",
                             !.charts = charts,
                             !.chart_error = FirstNotCreated(ChartSteps, charts),
                             !.results = IF completed THEN "dict" ELSE "None",
                             !.raised = FALSE,
                             !.conn = IF dashboard.has_conn THEN "closed" ELSE @]
    /\ UNCHANGED <<sales_db, collector_vars, store_vars, metric_vars, report_vars>>

\* if results: a non-empty dict is true, None is false
Truthy(results) == results = "dict"

\* main, after generate_all_improved_visualizations has returned
MainReports ==
    /\ dashboard.pc = "generated"
    /\ dashboard' = [dashboard EXCEPT !.pc = "done",
                                      !.printed = IF Truthy(dashboard.results)
                                                  THEN "success" ELSE "failure"]
    /\ UNCHANGED <<sales_db, collector_vars, store_vars, metric_vars, report_vars>>

InitDashboard ==
    /\ InitCollector
    /\ InitStore
    /\ hist = NoFrame
    /\ price_data = NoCall
    /\ volatility_30d = Std(NaN)
    /\ risk_category = NoCategory
    /\ mean_returns = <<>>
    /\ performance_rank = NoRank
    /\ comp_df = <<>>
    /\ positive_days_pct = NoRank
    /\ report_run = NoReport
    /\ daily_change = NaN
    /\ performance_category = NoCategory
    /\ sales_db \in SalesDatabases
    /\ dashboard = NoDashboard

NextDashboard == Construct \/ GenerateAllImprovedVisualizations \/ MainReports

SpecDashboard == InitDashboard /\ [][NextDashboard]_vars

----------------------------------------------------------------------------
(* Properties *)

SymbolsOf(frames) == [k \in 1..Len(frames) |-> frames[k]["Symbol"][1]]
DictSymbols(dicts) == [k \in 1..Len(dicts) |-> dicts[k].Symbol]
UniverseOrder == [k \in 1..NCompanies |-> Companies[k].symbol]
PriceSucceeded(sym) == price_outcome[sym] \in {"ok", "no_volume"}
FundSucceeded(sym) == fund_outcome[sym] = "ok"

\* C1: in collect_all_data a failing fetch of one entity is isolated: under
\* every assignment of outcomes (success, empty, exception) to the price and
\* the fundamentals fetch of each entity the script never crashes, the loop
\* visits every entity, and the run returns, handing back exactly the
\* entities whose fetch succeeded, in universe order.
C1_FailureIsolated ==
    /\ [](pc # "crashed")
    /\ [](pc = "save" =>
            /\ \A sym \in Symbols :
                 /\ price_outcome[sym] # "pending"
                 /\ fund_outcome[sym] # "pending"
            /\ SymbolsOf(all_price_data) = SelectSeq(UniverseOrder, PriceSucceeded)
            /\ DictSymbols(all_fundamentals) = SelectSeq(UniverseOrder, FundSucceeded))
    /\ (pc = "collect") ~> (pc = "save")

\* a run returned although the first entity's price fetch raised and a later
\* entity's fundamentals fetch raised; the others were still collected
C1_Witness ==
    /\ pc = "save"
    /\ price_outcome[Companies[1].symbol] = "raise"
    /\ fund_outcome[Companies[NCompanies].symbol] = "raise"
    /\ Len(all_price_data) = NCompanies - 1
    /\ Len(all_fundamentals) = NCompanies - 1

\* ---- scenario B ----
OnlyEmptyFetch(x) ==
    /\ price_outcome[x] = "empty"
    /\ \A o \in Symbols \ {x} : PriceSucceeded(o)

\* the most recent collector run is over and a load that completed without
\* error has read the directory as that run left it
LoadedAfterRun ==
    /\ pc = "idle"
    /\ runs >= 1
    /\ load_status.result = "ok"
    /\ load_status.wseq = wseq

HasRowsOf(table, sym) ==
    table.exists /\ \E j \in 1..Len(table.data["symbol"]) : table.data["symbol"][j] = sym

\* C2 as stated: with exactly one entity's price fetch empty, the summary
\* reports attempted = N and succeeded = N-1, and after save and load no table
\* of the store holds a row of that entity.
C2_NoRowsInAnyTable ==
    \A x \in Symbols :
        (LoadedAfterRun /\ OnlyEmptyFetch(x)) =>
            /\ summary.target = NCompanies
            /\ summary.price_collected = NCompanies - 1
            /\ \A t \in Tables : ~HasRowsOf(db[t], x)

\* C2, amended: with exactly one entity's price fetch empty, the summary
\* reports attempted = N and succeeded = N-1, and after save and load
\* stock_prices holds no row of that entity (company_fundamentals may: the
\* entity's profile is fetched and stored independently of its prices).
C2_NoPriceRows ==
    \A x \in Symbols :
        (LoadedAfterRun /\ OnlyEmptyFetch(x)) =>
            /\ summary.target = NCompanies
            /\ summary.price_collected = NCompanies - 1
            /\ ~HasRowsOf(db["stock_prices"], x)

C2_Witness ==
    \E x \in Symbols :
        /\ LoadedAfterRun
        /\ OnlyEmptyFetch(x)
        /\ Len(db["stock_prices"].data["symbol"]) = (NCompanies - 1) * PeriodDays
        /\ HasRowsOf(db["company_fundamentals"], x)

\* ---- rolling metrics ----
RollingColumns == {"MA_7", "Volume_MA_7", "MA_30", "Volatility_30d"}
WindowOf(col) == IF col \in {"MA_7", "Volume_MA_7"} THEN WindowShort ELSE WindowLong
IsNull(col, v) == IF col = "Volatility_30d" THEN StdIsNaN(v) ELSE IsNaN(v)

\* C3: for every rolling metric of window N that calculate_market_metrics
\* computed on a series of at least N observations, the first N-1 values are
\* null and the N-th and every later value is defined.
C3_RollingWarmup ==
    price_data.called =>
        \A col \in RollingColumns \cap DOMAIN price_data.frame :
            LET s == price_data.frame[col]
                N == WindowOf(col)
            IN  Len(s) >= N =>
                    \A i \in 1..Len(s) : IsNull(col, s[i]) <=> (i < N)

C3_Witness ==
    /\ price_data.called
    /\ RollingColumns \subseteq DOMAIN price_data.frame
    /\ NRows(price_data.frame) > WindowLong
    /\ IsNaN(price_data.frame["MA_30"][WindowLong - 1])
    /\ ~IsNaN(price_data.frame["MA_30"][WindowLong])
    /\ ~StdIsNaN(price_data.frame["Volatility_30d"][WindowLong + 1])
    /\ IsNaN(price_data.frame["Volume_MA_7"][WindowShort - 1])
    /\ ~IsNaN(price_data.frame["MA_7"][WindowShort])

\* C4: the risk_category rule is a total partition in both report scripts:
\* every (non-null) volatility value, 0 and the boundaries included, gets
\* exactly one of the three labels, by strict-greater, descending, first-match
\* thresholds: above 0.04 High, above 0.025 Medium, otherwise Low.
RuleRiskCategory(v) ==
    IF StdGt(v, Rat(4, 100)) THEN "High Risk"
    ELSE IF StdGt(v, Rat(25, 1000)) THEN "Medium Risk" ELSE "Low Risk"

C4_RiskPartition ==
    (risk_category # NoCategory /\ ~StdIsNaN(volatility_30d)) =>
        /\ risk_category.sql \in RiskLabels
        /\ risk_category.simple \in RiskLabels
        /\ risk_category.sql = RuleRiskCategory(volatility_30d)
        /\ risk_category.simple = RuleRiskCategory(volatility_30d)

\* C5: scenario C: with mean returns [0.02, -0.01, 0.02] both report scripts
\* give the two tied entities rank 1 and the third the next rank down.
ScenarioC == <<Rat(2, 100), Rat(-1, 100), Rat(2, 100)>>

TiesShareBestRank(rank) ==
    /\ Len(rank) = 3
    /\ rank[1] = Int2Rat(1)
    /\ rank[3] = Int2Rat(1)
    /\ rank[2] \in {Int2Rat(2), Int2Rat(3)}

C5_TiesShareBestRank ==
    (mean_returns = ScenarioC /\ performance_rank # NoRank) =>
        /\ TiesShareBestRank(performance_rank.sql)
        /\ TiesShareBestRank(performance_rank.simple)

\* C6: loading the same batch a second time leaves both tables as the first
\* load left them.
C6_ReloadIdempotent ==
    [][(/\ load_status.result = "ok"
        /\ load_status.wseq = wseq
        /\ load_status'.result = "ok"
        /\ load_status'.repeat) => db' = db]_vars

C6_Witness ==
    /\ load_status.result = "ok"
    /\ load_status.repeat
    /\ Len(Keys(db["stock_prices"])) > 0
    /\ Len(Keys(db["company_fundamentals"])) > 0
    /\ load_status.before = [t \in Tables |-> Keys(db[t])]

\* C7: after a load that completed without error each table holds exactly the
\* batch that load read, whatever the table held before (an earlier batch,
\* the leftovers of a failed load, nothing).
C7_ReplaceAll ==
    load_status.result = "ok" =>
        /\ db["stock_prices"].exists
        /\ db["stock_prices"].data = load_status.prices_df
        /\ db["company_fundamentals"].exists
        /\ db["company_fundamentals"].data = load_status.fundamentals_df

\* both tables held an earlier batch, with rows that the new batch lacks
C7_Witness ==
    /\ load_status.result = "ok"
    /\ \A t \in Tables :
         /\ load_status.before[t] # <<>>
         /\ \E j \in 1..Len(load_status.before[t]) :
              \A k \in 1..Len(Keys(db[t])) : load_status.before[t][j] # Keys(db[t])[k]

\* C8: when the write of one table fails, the printed error names that table,
\* and the other table is either written with this invocation's batch or both
\* tables still hold what they held before.
FailedTable == IF load_status.failed_at = "write_prices"
               THEN "stock_prices" ELSE "company_fundamentals"
OtherTable == CHOOSE t \in Tables : t # FailedTable
BatchFor(t) == IF t = "stock_prices" THEN load_status.prices_df
               ELSE load_status.fundamentals_df
Names(line, t) == \E k \in 1..Len(line) : line[k] = t

C8_WriteFailureReported ==
    (load_status.result = "error"
     /\ load_status.failed_at \in {"write_prices", "write_fundamentals"}) =>
        /\ Names(load_status.printed, FailedTable)
        /\ \/ /\ db[OtherTable].exists
              /\ BatchFor(OtherTable) # NoFrame
              /\ db[OtherTable].data = BatchFor(OtherTable)
           \/ \A t \in Tables : Keys(db[t]) = load_status.before[t]

\* C9: when a calculation inside calculate_market_metrics raises, the function
\* returns its input unmodified: no derived column was added.
C9_ReturnsInputUnmodified ==
    (price_data.called /\ MetricsRaise(hist)) => price_data.frame = hist

\* C10: Daily_Change at row i > 1 is (p_i - p_(i-1)) / p_(i-1) and
\* Daily_Change_Abs is p_i - p_(i-1), against the entity's preceding
\* observation; both are null at the entity's first observation.
C10_DailyChange ==
    (price_data.called /\ "Daily_Change_Abs" \in DOMAIN price_data.frame) =>
        LET f == price_data.frame
            p == hist["Close"]
        IN  /\ Len(f["Daily_Change"]) = Len(p)
            /\ Len(f["Daily_Change_Abs"]) = Len(p)
            /\ \A i \in 1..Len(p) :
                 IF i = 1
                 THEN IsNaN(f["Daily_Change"][i]) /\ IsNaN(f["Daily_Change_Abs"][i])
                 ELSE /\ f["Daily_Change"][i] = RDiv(RSub(p[i], p[i - 1]), p[i - 1])
                      /\ f["Daily_Change_Abs"][i] = RSub(p[i], p[i - 1])

C10_Witness ==
    /\ price_data.called
    /\ "Daily_Change_Abs" \in DOMAIN price_data.frame
    /\ NRows(hist) >= 3
    /\ IsNaN(price_data.frame["Daily_Change"][1])
    /\ price_data.frame["Daily_Change"][2] = Rat(1, 101)
    /\ price_data.frame["Daily_Change"][3] = Rat(1, 102)
    /\ price_data.frame["Daily_Change_Abs"][3] = Int2Rat(1)
\* ---- constant series ----
ConstantClose(f) == \A i \in 1..NRows(f) : f["Close"][i] = f["Close"][1]

\* C11: on a series whose close is the constant c, every defined MA_7 and
\* MA_30 value equals c and every defined Volatility_30d value equals 0.
C11_ConstantSeries ==
    (price_data.called /\ "MA_30" \in DOMAIN price_data.frame /\ ConstantClose(hist)) =>
        LET f == price_data.frame
            c == hist["Close"][1]
        IN  \A i \in 1..NRows(f) :
                /\ IsNaN(f["MA_7"][i]) \/ f["MA_7"][i] = c
                /\ IsNaN(f["MA_30"][i]) \/ f["MA_30"][i] = c
                /\ StdIsNaN(f["Volatility_30d"][i]) \/ f["Volatility_30d"][i] = StdOf(Int2Rat(0))

C11_Witness ==
    /\ price_data.called
    /\ ConstantClose(hist)
    /\ NRows(hist) > WindowLong
    /\ hist["Close"][1] = Int2Rat(3)
    /\ price_data.frame["MA_7"][WindowShort] = Int2Rat(3)
    /\ price_data.frame["MA_30"][WindowLong + 1] = Int2Rat(3)
    /\ price_data.frame["Volatility_30d"][WindowLong] = StdOf(Int2Rat(0))
\* ---- the divisor of Volatility_30d ----
\* the trailing window of WindowLong closes that ends at row i
CloseWindow(i) == SubSeq(hist["Close"], i - WindowLong + 1, i)

\* (sum x^2 - (sum x)^2 / n) / divisor
VarianceBy(w, divisor) ==
    LET n == Int2Rat(Len(w))
        sum == RSum(w)
        sumsq == RSum([k \in 1..Len(w) |-> RMul(w[k], w[k])])
    IN  RDiv(RSub(sumsq, RDiv(RMul(sum, sum), n)), Int2Rat(divisor))

\* C20 as stated: Volatility_30d is the population standard deviation of the
\* trailing 30 closes: the squared deviations from the window mean are
\* divided by N.
C20_PopulationStd ==
    (price_data.called /\ "Volatility_30d" \in DOMAIN price_data.frame) =>
        \A i \in WindowLong..NRows(hist) :
            price_data.frame["Volatility_30d"][i] = Std(VarianceBy(CloseWindow(i), WindowLong))

\* C20, amended: Volatility_30d is the sample standard deviation of the
\* trailing 30 closes: the squared deviations from the window mean are
\* divided by N - 1.
C20_SampleStd ==
    (price_data.called /\ "Volatility_30d" \in DOMAIN price_data.frame) =>
        \A i \in WindowLong..NRows(hist) :
            price_data.frame["Volatility_30d"][i] =
                Std(VarianceBy(CloseWindow(i), WindowLong - 1))

\* a rising series 101, 102, ...: the variance of 30 consecutive integers is
\* 899/12 by N and 155/2 by N - 1
C20_Witness ==
    /\ price_data.called
    /\ "Volatility_30d" \in DOMAIN price_data.frame
    /\ NRows(hist) > WindowLong
    /\ hist["Close"][1] = Int2Rat(101)
    /\ hist["Close"][2] = Int2Rat(102)
    /\ price_data.frame["Volatility_30d"][WindowLong + 1] = Std(Rat(155, 2))
\* ---- scenario A ----
\* a frame of 10 daily observations of constant close 100 and volume 1000
ScenarioAFrame(f) ==
    /\ NRows(f) = 10
    /\ \A i \in 1..NRows(f) : f["Close"][i] = Int2Rat(100) /\ f["Volume"][i] = Int2Rat(1000)

\* C12: scenario A: when collect_all_data has gone through 3 entities, each
\* with 10 daily observations of constant close 100 and volume 1000, then in
\* every entity's transformed frame the 7-day rolling means equal the constant
\* (MA_7 = 100, Volume_MA_7 = 1000) and Volume_Ratio equals 1 from the 7th
\* observation on, Daily_Change equals 0 from the 2nd observation on, and the
\* window-30 columns are null throughout.
C12_ScenarioA ==
    (/\ Len(all_price_data) >= 3
     /\ \A k \in 1..3 : ScenarioAFrame(all_price_data[k])) =>
        \A k \in 1..3 :
            LET f == all_price_data[k]
            IN  \A i \in 1..NRows(f) :
                  /\ i >= WindowShort =>
                        /\ f["MA_7"][i] = Int2Rat(100)
                        /\ f["Volume_MA_7"][i] = Int2Rat(1000)
                        /\ f["Volume_Ratio"][i] = Int2Rat(1)
                  /\ i >= 2 => f["Daily_Change"][i] = Int2Rat(0)
                  /\ IsNaN(f["MA_30"][i])
                  /\ StdIsNaN(f["Volatility_30d"][i])

C12_Witness ==
    /\ Len(all_price_data) >= 3
    /\ \A k \in 1..3 : ScenarioAFrame(all_price_data[k])
    /\ {all_price_data[k]["Symbol"][1] : k \in 1..3} = {"LNVGY", "AAPL", "MSFT"}
    /\ all_price_data[3]["MA_7"][10] = Int2Rat(100)
    /\ IsNaN(all_price_data[3]["MA_7"][6])
    /\ all_price_data[2]["Volume_Ratio"][7] = Int2Rat(1)
\* the share of an entity's in-window observations whose daily_change > 0
PositiveShare(sym) ==
    Rat(100 * Cardinality({i \in 1..Len(comp_df) :
                              /\ comp_df[i].symbol = sym
                              /\ RGt(comp_df[i].daily_change, Int2Rat(0))}),
        Cardinality({i \in 1..Len(comp_df) : comp_df[i].symbol = sym}))

PositiveDaysRight(out) ==
    /\ {out[k].symbol : k \in 1..Len(out)} = {comp_df[i].symbol : i \in 1..Len(comp_df)}
    /\ \A k \in 1..Len(out) : out[k].positive_days_pct = PositiveShare(out[k].symbol)

\* C13: in the competitive-analysis dataset of either script, every entity
\* row's positive_days_pct equals 100 x (the entity's in-window observations
\* with daily_change > 0) / (the entity's in-window observations).
C13_PositiveDaysPct ==
    performance_rank # NoRank =>
        /\ PositiveDaysRight(positive_days_pct.sql)
        /\ PositiveDaysRight(positive_days_pct.simple)
FileKinds == {"stock_prices", "company_fundamentals"}
Stamped(kind) == {f \in Glob(files, kind) : f.stamp # LatestStamp}

IndexedOn(t, columns) ==
    /\ \E j \in 1..Len(indexes) :
          /\ indexes[j].table = t
          /\ indexes[j].columns = columns
          /\ indexes[j].name \in db[t].indexes
    /\ \A c \in 1..Len(columns) : columns[c] \in DOMAIN db[t].data

\* C16: after every load_data_to_database run that completed without
\* error, a repeated run included, stock_prices carries the indexes on
\* (symbol, date), (date) and (symbol); and indexes are created only after
\* both table writes: a run that rewrote stock_prices and stopped before the
\* second write was done leaves the rewritten stock_prices without index.
C16_IndexesAfterLoad ==
    /\ load_status.result = "ok" =>
          /\ IndexedOn("stock_prices", <<"symbol", "date">>)
          /\ IndexedOn("stock_prices", <<"date">>)
          /\ IndexedOn("stock_prices", <<"symbol">>)
    /\ load_status.failed_at \in {"read_fundamentals", "write_fundamentals"} =>
          db["stock_prices"].indexes = {}

\* a second successful load of the same files has dropped and recreated the
\* tables, and the three indexes are there
C16_Witness ==
    /\ load_status.result = "ok"
    /\ load_status.repeat
    /\ db["stock_prices"].indexes =
           {"idx_stock_symbol_date", "idx_stock_date", "idx_stock_symbol"}
NoDuplicates(s) == \A i, j \in 1..Len(s) : i # j => s[i] # s[j]
\* (entity, timestamp) of every row of a collected frame
BatchPairs(f) == [j \in 1..NRows(f) |-> <<f["Symbol"][j], f["Date"][j]>>]

\* C17: given that a fetch returns distinct dates, the combined price batch
\* of a collection run, every stock_prices file written from it, and
\* stock_prices after a load that wrote it, hold no two rows with the same
\* (entity, timestamp).
C17_UniquePairs ==
    /\ (pc \in {"save", "report"} /\ all_price_data # <<>>) =>
           NoDuplicates(BatchPairs(Concat(all_price_data)))
    /\ \A f \in Glob(files, "stock_prices") :
           NoDuplicates(BatchPairs(ReadCsv(files[f].content)))
    /\ load_status.result = "ok" => NoDuplicates(Keys(db["stock_prices"]))

\* a loaded batch of several entities over the same days: dates repeat
\* across entities, pairs do not
C17_Witness ==
    /\ load_status.result = "ok"
    /\ LET keys == Keys(db["stock_prices"])
       IN  /\ Len(keys) >= 4
           /\ \E i, j \in 1..Len(keys) : keys[i][1] # keys[j][1] /\ keys[i][2] = keys[j][2]
           /\ \E i, j \in 1..Len(keys) : keys[i][1] = keys[j][1] /\ keys[i][2] # keys[j][2]
\* C18: for every assignment of fetch outcomes to the entities, the summary
\* main produces reports attempted (Target Companies) = the size of the
\* universe and succeeded (Price Data Collected) = the number of entities
\* whose price fetch returned a non-empty frame without raising; succeeded
\* never exceeds attempted, and a skipped entity is not among those counted.
C18_SummaryCounts ==
    (pc = "idle" /\ runs >= 1) =>
        /\ summary.target = NCompanies
        /\ summary.price_collected = Cardinality({sym \in Symbols : PriceSucceeded(sym)})
        /\ summary.price_collected <= summary.target
        /\ summary.price_collected = Len(all_price_data)
        /\ \A k \in 1..Len(all_price_data) : PriceSucceeded(SymbolsOf(all_price_data)[k])
        /\ files[FileName("collection_report", runs)].content = summary

\* a finished run in which the first entity's fetch came back empty and
\* every other entity succeeded: the summary counts one short of the universe
C18_Witness ==
    /\ pc = "idle"
    /\ runs >= 1
    /\ price_outcome[Companies[1].symbol] = "empty"
    /\ price_outcome[Companies[2].symbol] = "ok"
    /\ summary.price_collected = summary.target - 1
\* C15: no step of create_tableau_datasets or create_tableau_datasets_simple,
\* on any path (database missing, a query raising, all queries running),
\* changes the rows, columns or indexes of a table; the store changes only in
\* a step of load_data_to_database.
C15_ReportersOnlyRead ==
    [][/\ report_run' # report_run => db' = db
       /\ db' # db => /\ report_run' = report_run
                      /\ load_status'.result \in {"ok", "error"}
                      /\ load_status'.wseq = wseq]_vars

\* a reporter has run its query on a loaded store and written its datasets
C15_Witness ==
    /\ db["stock_prices"].exists
    /\ db["company_fundamentals"].exists
    /\ report_run.script = "tableau_data_simple"
    /\ report_run.result = "ok"
    /\ report_run.written # {}

\* C19: whenever an invocation of load_data_to_database,
\* create_tableau_datasets or create_tableau_datasets_simple that opened the
\* database connection has ended, on the success path or after a failing
\* read, write or query, the connection is closed.
C19_ConnectionClosed ==
    /\ load_status.conn # "open"
    /\ report_run.conn # "open"

\* the loader closes its connection on every path (finally)
LoaderConnectionClosed ==
    load_status.result \in {"ok", "error"} <=> load_status.conn = "closed"
\* ---- Daily_Range and Volume_Ratio ----
\* the integer value of a finite whole-number cell
Whole(x) == x.n \div x.d

\* sum of the window of w volumes ending at row i
VolumeWindowSum(i, w) ==
    LET v == hist["Volume"]
        RECURSIVE Upto(_)
        Upto(j) == IF j = 0 THEN 0 ELSE Whole(v[i - w + j]) + Upto(j - 1)
    IN  Upto(w)

\* Volume_Ratio is the volume over the mean of the 7 volumes ending at the
\* row, null before the 7th row
VolumeRatioRight(f) ==
    \A i \in 1..NRows(hist) :
        IF i < WindowShort THEN IsNaN(f["Volume_Ratio"][i])
        ELSE f["Volume_Ratio"][i] =
                Rat(WindowShort * Whole(hist["Volume"][i]), VolumeWindowSum(i, WindowShort))

\* Daily_Range is scale x (high - low) / close
RangeScaledBy(f, scale) ==
    \A i \in 1..NRows(hist) :
        f["Daily_Range"][i] =
            Rat(scale * (Whole(hist["High"][i]) - Whole(hist["Low"][i])),
                Whole(hist["Close"][i]))

\* C21 as stated: for every observation Daily_Range equals (high - low) /
\* close with no further scaling, and Volume_Ratio equals the volume divided
\* by its own 7-period rolling mean.
C21_RangeUnscaled ==
    (price_data.called /\ "Daily_Range" \in DOMAIN price_data.frame) =>
        /\ RangeScaledBy(price_data.frame, 1)
        /\ VolumeRatioRight(price_data.frame)

\* C21, amended: for every observation Daily_Range equals (high - low) /
\* close times 100, a percentage, and Volume_Ratio equals the volume divided
\* by its own 7-period rolling mean (null while the window is not full, and
\* 0/0 = null when nothing was traded in the window).
C21_RangePercent ==
    (price_data.called /\ "Daily_Range" \in DOMAIN price_data.frame) =>
        /\ RangeScaledBy(price_data.frame, 100)
        /\ VolumeRatioRight(price_data.frame)

\* a flat series at 100 with high 102 and low 99: Daily_Range is 3, not 0.03;
\* alternating volume 1100, 1000, ...: the 7th ratio is 1100 over the mean
\* of four 1100s and three 1000s
C21_Witness ==
    /\ price_data.called
    /\ "Daily_Range" \in DOMAIN price_data.frame
    /\ NRows(hist) >= WindowShort
    /\ hist["Close"][1] = Int2Rat(100)
    /\ price_data.frame["Daily_Range"][1] = Int2Rat(3)
    /\ price_data.frame["Volume_Ratio"][WindowShort] = Rat(7700, 7400)
\* ---- order of the fetches ----
Once == [prices |-> 1, fundamentals |-> 1]
NotYet == [prices |-> 0, fundamentals |-> 0]
\* the k-th entity of the universe has been processed in the current run
Visited(k) == pc \in {"save", "report", "idle"} \/ k < loop_i

\* C22: within one collect_all_data run the entities are visited one at a
\* time in universe order: at every point each entity already visited has
\* had its price fetch and its fundamentals fetch invoked exactly once,
\* whatever the outcome, no later entity has had any fetch, and every step of
\* the loop invokes the fetches of the one entity the loop is at and moves on
\* to the next.
C22_SequentialNoRetry ==
    /\ [](runs >= 1 =>
            \A k \in 1..NCompanies :
                LET sym == Companies[k].symbol
                IN  /\ fetch_calls[sym] = IF Visited(k) THEN Once ELSE NotYet
                    /\ Visited(k) <=> price_outcome[sym] # "pending"
                    /\ Visited(k) <=> fund_outcome[sym] # "pending")
    /\ [][pc = "collect" =>
            /\ loop_i' = loop_i + 1
            /\ \A k \in 1..NCompanies :
                  (fetch_calls'[Companies[k].symbol] # fetch_calls[Companies[k].symbol])
                      <=> k = loop_i]_vars

\* a run has returned in which the first entity's price fetch raised and the
\* second's came back empty: each was invoked once all the same
C22_Witness ==
    /\ pc = "save"
    /\ price_outcome[Companies[1].symbol] = "raise"
    /\ fund_outcome[Companies[1].symbol] = "raise"
    /\ price_outcome[Companies[2].symbol] = "empty"
    /\ \A k \in 1..NCompanies : fetch_calls[Companies[k].symbol] = Once
\* ---- which run wrote a file ----
\* a timestamped file carries its run's timestamp; a latest file is written
\* two writes after the timestamped file of its kind, in the same save_data
WrittenBy(f) ==
    IF f.stamp # LatestStamp THEN f.stamp
    ELSE (CHOOSE g \in Stamped(f.kind) : files[g].ctime + 2 = files[f].ctime).stamp

\* C23: after any sequence of collection runs followed by a load, the price
\* file and the fundamentals file that were loaded were written by the same
\* collection run, the most recent one.
C23_SameRunLoaded ==
    (load_status.result = "ok" /\ load_status.wseq = wseq /\ pc = "idle") =>
        LET latest_price_file == MostRecent(files, Glob(files, "stock_prices"))
            latest_fundamentals_file == MostRecent(files, Glob(files, "company_fundamentals"))
        IN  /\ WrittenBy(latest_price_file) = WrittenBy(latest_fundamentals_file)
            /\ WrittenBy(latest_price_file) = runs
\* the rows of stock_prices inside the window, by (symbol, date)
InWindowKeys(d) ==
    LET keys == Keys(d["stock_prices"])
        InWindow(key) == key[2] >= WindowStartDay
    IN  SelectSeq(keys, InWindow)
Occurrences(s, x) == Cardinality({k \in 1..Len(s) : s[k] = x})

\* C24: whenever a report script has written its per-observation datasets,
\* every stock_prices observation inside the window appears in exactly one
\* of their rows: the join with company_fundamentals neither drops nor
\* duplicates an observation.
C24_JoinKeepsObservations ==
    [][(report_run' # report_run /\ "executive_summary" \in report_run'.written) =>
          \A k \in 1..Len(InWindowKeys(db)) :
              Occurrences(report_run'.observations, InWindowKeys(db)[k]) = 1]_vars
\* C25: the SQL report script and the pandas report script assign the same
\* performance_category to every daily_change value, the boundary values
\* -0.02, 0 and 0.02 and a null daily_change included: 'Strong Up' above
\* 0.02, 'Up' above 0, 'Strong Down' below -0.02, 'Down' otherwise.
C25_SameCategory ==
    performance_category # NoCategory =>
        /\ performance_category.sql = performance_category.simple
        /\ performance_category.simple =
               IF RGt(daily_change, Rat(2, 100)) THEN "Strong Up"
               ELSE IF RGt(daily_change, Int2Rat(0)) THEN "Up"
               ELSE IF RGt(Rat(-2, 100), daily_change) THEN "Strong Down"
               ELSE "Down"
\* an entity's market cap as a percentage of the summed market cap of the
\* profiled entities, each counted once
WeightOfEntity(d, sym) ==
    LET cf == d["company_fundamentals"].data
        j == CHOOSE j \in 1..Len(cf["symbol"]) : cf["symbol"][j] = sym
    IN  Rat(100 * cf["market_cap"][j], SumInts(cf["market_cap"]))

\* C26: whenever a report script has written the risk-analysis dataset, the
\* portfolio_weight_pct of every row equals the entity's market cap as a
\* percentage of the summed market cap of all profiled entities, each
\* counted once, in the SQL script and in the pandas script alike.
C26_PortfolioWeight ==
    [][(report_run' # report_run /\ "risk_analysis" \in report_run'.written) =>
          \A k \in 1..Len(report_run'.portfolio_weight_pct) :
              report_run'.portfolio_weight_pct[k].portfolio_weight_pct =
                  WeightOfEntity(db, report_run'.portfolio_weight_pct[k].symbol)]_vars

\* the per-entity windowed columns of calculate_market_metrics
WindowedColumns == {"Volatility_30d", "Daily_Change", "Daily_Change_Abs", "MA_7",
                    "MA_30", "Volume_MA_7", "Volume_Ratio"}

\* the rows of the combined batch at which a new entity starts
EntityStarts(c) ==
    {i \in 1..Len(c["Symbol"]) : IF i = 1 THEN TRUE ELSE c["Symbol"][i] # c["Symbol"][i - 1]}

\* every frame of the batch is what calculate_market_metrics yields from that
\* frame's own fetched columns
OwnObservationsOnly ==
    \A k \in 1..Len(all_price_data) :
        LET f == all_price_data[k]
            alone == CalculateMarketMetrics(FetchedColumns(f))
        IN  \A c \in WindowedColumns : f[c] = alone[c]

\* in the combined batch each entity's first observation has no previous one
FirstChangeNull ==
    all_price_data # <<>> =>
        LET c == Concat(all_price_data)
        IN  \A i \in EntityStarts(c) :
                IsNaN(c["Daily_Change"][i]) /\ IsNaN(c["Daily_Change_Abs"][i])

\* C27: derived metrics never cross entity boundaries: every windowed value of
\* an entity's frame in the batch is the value calculate_market_metrics
\* computes from that entity's own observations alone; a loop iteration for
\* another entity, whatever its fetch outcome, leaves the frames already in
\* the batch as they are; and in the combined batch the first observation of
\* each entity has a null Daily_Change even when it follows another entity's
\* rows.
C27_EntityIsolation ==
    /\ [](OwnObservationsOnly /\ FirstChangeNull)
    /\ [][\A k \in 1..Len(all_price_data) :
             Len(all_price_data') >= k /\ all_price_data'[k] = all_price_data[k]]_vars

\* two entities are in the batch and a third one's fetch returned nothing; the
\* second frame starts at a close that differs from the first frame's last
\* close, its first Daily_Change is null and its second is not
C27_Witness ==
    /\ Len(all_price_data) = 2
    /\ loop_i > 3
    /\ LET f == all_price_data[1]
           g == all_price_data[2]
       IN  /\ NRows(g) >= WindowShort
           /\ f["Symbol"][1] # g["Symbol"][1]
           /\ f["Close"][NRows(f)] # g["Close"][1]
           /\ IsNaN(g["Daily_Change"][1])
           /\ ~IsNaN(g["Daily_Change"][2])
           /\ ~IsNaN(g["MA_7"][WindowShort])
           /\ IsNaN(Concat(all_price_data)["Daily_Change"][NRows(f) + 1])


\* the rows of stock_prices of an entity that the report window keeps
InWindowRows(d, sym) ==
    {i \in 1..Len(d["stock_prices"].data["symbol"]) :
        /\ d["stock_prices"].data["symbol"][i] = sym
        /\ d["stock_prices"].data["date"][i] >= WindowStartDay}

\* the entity's earliest in-window date and its close on a date
EarliestInWindow(d, sym) ==
    CHOOSE t \in {d["stock_prices"].data["date"][i] : i \in InWindowRows(d, sym)} :
        \A i \in InWindowRows(d, sym) : t <= d["stock_prices"].data["date"][i]
CloseOn(d, sym, t) ==
    LET i == CHOOSE j \in InWindowRows(d, sym) : d["stock_prices"].data["date"][j] = t
    IN  d["stock_prices"].data["close_price"][i]

\* (close / base - 1) * 100
ReturnOverBase(d, sym, t) ==
    RMul(RSub(RDiv(CloseOn(d, sym, t), CloseOn(d, sym, EarliestInWindow(d, sym))),
              Int2Rat(1)),
         Int2Rat(100))

SeqToSet(rows) == {rows[k] : k \in 1..Len(rows)}

\* C28: whenever a report script has written the time-series dataset, every
\* row's cumulative_return_pct equals (close / base - 1) * 100 with base the
\* close of the row's entity at its earliest in-window observation, it is 0
\* at that earliest observation, and the SQL query and the pandas loop give
\* the same value for every (entity, date) of the database that was read.
C28_CumulativeReturn ==
    [][(report_run' # report_run /\ "timeseries_data" \in report_run'.written) =>
          LET rows == report_run'.cumulative_return_pct
          IN  /\ \A k \in 1..Len(rows) :
                    /\ rows[k].cumulative_return_pct =
                           ReturnOverBase(db, rows[k].symbol, rows[k].date)
                    /\ rows[k].date = EarliestInWindow(db, rows[k].symbol) =>
                           rows[k].cumulative_return_pct = Int2Rat(0)
              /\ Len(rows) = Len(report_run'.observations)
              /\ SeqToSet(SqlCumulativeReturn(db)) = SeqToSet(SimpleCumulativeReturn(db))]_vars

\* the SQL script has written the time-series dataset from a table that also
\* holds an observation before the window whose close differs from the base:
\* the entity's return is 0 at its earliest in-window date and 40 at the next
C28_Witness ==
    /\ report_run.script = "tableau_data_prep"
    /\ "timeseries_data" \in report_run.written
    /\ \E k, m \in 1..Len(report_run.cumulative_return_pct) :
          LET rows == report_run.cumulative_return_pct
          IN  /\ rows[k].symbol = "LNVGY" /\ rows[m].symbol = "LNVGY"
              /\ rows[k].date = WindowStartDay
              /\ rows[k].cumulative_return_pct = Int2Rat(0)
              /\ rows[m].date = WindowStartDay + 1
              /\ rows[m].cumulative_return_pct = Int2Rat(40)
    /\ \E i \in 1..Len(db["stock_prices"].data["symbol"]) :
          /\ db["stock_prices"].data["symbol"][i] = "LNVGY"
          /\ db["stock_prices"].data["date"][i] < WindowStartDay
          /\ db["stock_prices"].data["close_price"][i] # CloseOn(db, "LNVGY", WindowStartDay)


\* the files of a kind that glob finds in ../data
NoFileOf(kind) == \A f \in DOMAIN files : f.kind # kind

\* market_intelligence.db exists once sqlite3.connect has been called on it
NeverConnected == load_status.conn = "never_opened"

\* C29: missing-input guard: an invocation of load_data_to_database that finds
\* no price file or no fundamentals file returns without opening a connection
\* and leaves every table as it was; an invocation of either report script
\* while the database file does not exist returns without opening a
\* connection and without writing any dataset.
C29_MissingInputGuard ==
    [][/\ (load_status' # load_status /\ (NoFileOf("stock_prices")
                                           \/ NoFileOf("company_fundamentals"))) =>
             /\ db' = db
             /\ load_status'.conn = "never_opened"
             /\ load_status'.result = "no_files"
       /\ (report_run' # report_run /\ NeverConnected) =>
             /\ db' = db
             /\ report_run'.conn = "never_opened"
             /\ report_run'.written = {}
             /\ report_run'.result = "no_database"]_vars

\* a run saved a price file and no fundamentals file; the loader returned at
\* its guard, and the SQL report script, run afterwards, returned at its own
C29_Witness ==
    /\ ~NoFileOf("stock_prices")
    /\ NoFileOf("company_fundamentals")
    /\ load_status.result = "no_files"
    /\ load_status.conn = "never_opened"
    /\ \A t \in Tables : db[t] = NoTable
    /\ report_run.script = "tableau_data_prep"
    /\ report_run.result = "no_database"
    /\ report_run.written = {}


\* C30: in the sales dashboard generator, generate_all_improved_visualizations
\* never raises; when load_data failed or a chart step failed it returns None
\* and main then reports failure, not success; the connection is closed
\* whenever it was opened; and a results dictionary is returned only when
\* every chart was created.
C30_FailureReported ==
    /\ dashboard.pc \in {"generated", "done"} =>
          /\ ~dashboard.raised
          /\ (dashboard.load_error \/ dashboard.chart_error # "none") =>
                dashboard.results = "None"
          /\ dashboard.has_conn => dashboard.conn = "closed"
          /\ dashboard.results = "dict" => dashboard.charts = AllCharts
    /\ dashboard.pc = "done" =>
          (dashboard.printed = "success" <=> dashboard.results = "dict")
    /\ (dashboard.pc = "done" /\ (dashboard.load_error \/ dashboard.chart_error # "none")) =>
          dashboard.printed = "failure"

====
